---- MODULE Spec2Model ----
(***************************************************************************)
(* Model of the deep_lom backend: the test-attempt lifecycle               *)
(* (api/v1/endpoints/student.py, api/v1/endpoints/tests.py,                *)
(* tasks/grading_tasks.py) and the real-time lobby                         *)
(* (services/websocket_manager.py).                                        *)
(*                                                                         *)
(* Every HTTP handler and every Celery task works on its own SQLAlchemy    *)
(* session: it SELECTs rows into the session, computes, and commits.       *)
(* No handler locks a row and the tables carry no uniqueness constraint,   *)
(* so a handler is modelled as a read step followed by a commit step, and  *)
(* the steps of different handlers interleave.  A commit UPDATEs only the  *)
(* columns whose new value differs from the value the session loaded.      *)
(***************************************************************************)
EXTENDS Integers, Sequences, FiniteSets, TLC

(***************************************************************************)
(* Bounds of the model.                                                    *)
(***************************************************************************)
\* How many handler calls and task messages a run makes in all.
MaxCalls == 5

(***************************************************************************)
(* JSON values held by Answer.answer and Question.correct_answer.          *)
(***************************************************************************)
IntV(n) == [t |-> "int", v |-> n]
StrV(s) == [t |-> "str", v |-> s]
NullV == [t |-> "null", v |-> 0]
BoolV(b) == [t |-> "bool", v |-> b]
ListV(s) == [t |-> "list", v |-> s]
\* A JSON object; v names it.
DictV(d) == [t |-> "dict", v |-> d]

\* A nullable Float column that holds NULL.
None == -1

\* str.isdigit() and int() on the strings of the model.
DigitStrings == {"0", "1", "2", "3"}

StrToInt(s) ==
    CASE s = "0" -> 0
      [] s = "1" -> 1
      [] s = "2" -> 2
      [] s = "3" -> 3

\* str() of an integer.
IntStr(n) ==
    CASE n = 0 -> "0"
      [] n = 1 -> "1"
      [] n = 2 -> "2"
      [] n = 3 -> "3"

\* repr() of an element of a list: a string is quoted.
ElemRepr(x) ==
    IF x.t = "str" THEN "'" \o x.v \o "'"
    ELSE IF x.t = "dict" THEN "{" \o x.v \o "}"
    ELSE IntStr(x.v)

\* str() of a list: "[0, 1]".
RECURSIVE ListItems(_)
ListItems(s) ==
    IF Len(s) = 0 THEN ""
    ELSE IF Len(s) = 1 THEN ElemRepr(s[1])
    ELSE ElemRepr(s[1]) \o ", " \o ListItems(Tail(s))

\* str() of a JSON value.
PyStr(x) ==
    IF x.t = "str" THEN x.v
    ELSE IF x.t = "null" THEN "None"
    ELSE IF x.t = "bool" THEN (IF x.v THEN "True" ELSE "False")
    ELSE IF x.t = "list" THEN "[" \o ListItems(x.v) \o "]"
    ELSE IF x.t = "dict" THEN "{" \o x.v \o "}"
    ELSE IntStr(x.v)

\* str.lower() on the strings of the model.
Lower(s) ==
    CASE s = "True" -> "true"
      [] s = "False" -> "false"
      [] s = "None" -> "none"
      [] s = "YES" -> "yes"
      [] OTHER -> s

(***************************************************************************)
(* The questions of the project: two variants; variant 1 holds an          *)
(* objective and an open-ended question, variant 2 one objective question. *)
(***************************************************************************)
Questions == {1, 2, 3}

\* project   : the row of the project in the table "projects".
\* qs        : the rows of the project in the table "questions", by id.
\* materials : project_materials.is_vectorized of every material of the
\*             project: 0 pending, 1 processing, 2 done, -1 error.
\* tasks     : the Celery messages that were dispatched for the project, in
\*             the order of their dispatch, each with the state of its run.
\* enq       : the start_vectorization requests that are being served.
VARIABLES project, qs, materials, tasks, enq

kvars == <<materials, tasks, enq>>

pvars == <<project, qs, kvars>>

\* The row of the k-th generated question as generate_test_questions stores it.
GeneratedRow(k) ==
    [question_type |-> CASE k = 1 -> "single-choice" [] k = 2 -> "essay"
                         [] k = 3 -> "single-choice",
     variant_number |-> CASE k = 1 -> 1 [] k = 2 -> 1 [] k = 3 -> 2,
     points |-> CASE k = 1 -> 2 [] k = 2 -> 10 [] k = 3 -> 1,
     correct_answer |-> CASE k = 1 -> IntV(2) [] k = 2 -> StrV("rubric")
                          [] k = 3 -> StrV("2")]

\* The row of question q: every run of the generation stores three rows
\* under ids that were never used.
GeneratedQuestion(q) == GeneratedRow(((q - 1) % 3) + 1)

QType(q) == qs[q].question_type

QVariant(q) == qs[q].variant_number

QPoints(q) == qs[q].points

QCorrect(q) == qs[q].correct_answer

WrittenTypes == {"essay", "short-answer", "matching"}

\* The values a student sends as an answer.
AnswerInputs == {IntV(2), StrV("text")}

RECURSIVE SumOver(_, _)
SumOver(S, f) ==
    IF S = {} THEN 0
    ELSE LET x == CHOOSE y \in S : TRUE IN f[x] + SumOver(S \ {x}, f)

VariantQuestions(v) == {q \in DOMAIN qs : QVariant(q) = v}

\* select(Question.variant_number).distinct()
AvailableVariants == {QVariant(q) : q \in DOMAIN qs}

\* sum(q.points for q in questions)
VariantMaxScore(v) == SumOver(VariantQuestions(v), [q \in DOMAIN qs |-> QPoints(q)])

(***************************************************************************)
(* Grading of one answer at finalize (student.py submit_test).             *)
(***************************************************************************)
NoInt == -1

AsInt(x) ==
    IF x.t = "int" THEN x.v
    ELSE IF x.t = "bool" THEN (IF x.v THEN 1 ELSE 0)
    ELSE IF x.t = "str" /\ x.v \in DigitStrings THEN StrToInt(x.v)
    ELSE NoInt

SingleChoiceCorrect(correct, student) ==
    IF AsInt(correct) /= NoInt /\ AsInt(student) /= NoInt
    THEN AsInt(student) = AsInt(correct)
    ELSE PyStr(student) = PyStr(correct)

\* Lines 835-842: true-false.
Truthy == {"true", "1", "yes"}

TrueFalseCorrect(correct, student) ==
    (Lower(PyStr(student)) \in Truthy) = (Lower(PyStr(correct)) \in Truthy)

\* Lines 848-852: set(str(x) for x in ...), of a list; anything else counts as [].
StrSet(x) == IF x.t = "list" THEN {PyStr(x.v[i]) : i \in 1..Len(x.v)} ELSE {}

MultipleChoiceCorrect(correct, student) == StrSet(correct) = StrSet(student)

\* Lines 794-865: is_correct and score for an answer to a question of the
\* given type, correct answer and points.
Grade(question_type, correct, points, ans) ==
    LET is_correct ==
          IF question_type = "single-choice" THEN SingleChoiceCorrect(correct, ans)
          ELSE IF question_type = "true-false" THEN TrueFalseCorrect(correct, ans)
          ELSE IF question_type = "multiple-choice" THEN MultipleChoiceCorrect(correct, ans)
          ELSE FALSE
    IN IF is_correct
       THEN [is_correct |-> "true", score |-> points]
       ELSE [is_correct |-> "false", score |-> 0]

\* is_correct and score that submit_test stores for an answer to question q.
GradeAnswer(q, ans) == Grade(QType(q), QCorrect(q), QPoints(q), ans)


(***************************************************************************)
(* State.                                                                  *)
(*   tests, answers : the rows of the tables "tests" and "answers"; a row  *)
(*                    is identified by its position (its primary key).     *)
(*   req            : the HTTP requests in flight, one per request slot.   *)
(*   job            : the Celery worker running grade_test_written_answers.*)
(*   queue          : the grade_test_written_answers messages waiting in   *)
(*                    the "tests" queue.                                   *)
(*   clock          : datetime.utcnow().                                   *)
(*   used           : how many calls have been made.                       *)
(*   began          : what the successful begin calls returned.            *)
(*   last           : the last handler call that returned: its outcome,    *)
(*                    the attempt it was about and what it returned.       *)
(***************************************************************************)
VARIABLES tests, answers, req, job, queue, clock, used, began, last

avars == <<tests, answers, req, job, queue, clock, used, began, last>>

(***************************************************************************)
(* State of the lobby manager (services/websocket_manager.py).             *)
(*   lobbies  : the Lobby objects ever created; a coroutine that took a    *)
(*              lobby with get_lobby keeps its object after a close.       *)
(*   registry : LobbyManager.lobbies[project_id]: the position of the      *)
(*              project's lobby in lobbies, 0 when it has none.            *)
(*   lock     : LobbyManager._lock: 0 when free, else the connection whose *)
(*              coroutine holds it.                                        *)
(*   conns    : the websocket connections and the handler of each.         *)
(*   sent     : the message the last step sent, and the connections it     *)
(*              went to.                                                   *)
(*   lused    : how many client actions have been made.                    *)
(*   view     : the data of the last lobby_update each connection          *)
(*              received; it is recorded when view.on holds.               *)
(***************************************************************************)
VARIABLES lobbies, registry, lock, conns, sent, lused, view

lvars == <<lobbies, registry, lock, conns, sent, lused, view>>

(***************************************************************************)
(* State of one run of the grading code on one answer.                     *)
(*   gq   : the question: question_type, correct_answer, points,           *)
(*          expected_keywords, matching_pairs.                             *)
(*   ga   : the answer's value (Answer.answer, AnswerSubmit.answer).        *)
(*   gout : what the last run of the grading code computed: the path       *)
(*          (finalize: student.py, submit: tests.py), the exception it     *)
(*          raised, is_correct and score.                                  *)
(***************************************************************************)
VARIABLES gq, ga, gout

gvars == <<gq, ga, gout>>

vars == <<avars, lvars, gvars, pvars>>

Reqs == {1, 2}

NoRow == [status |-> "none", variant_number |-> 0, score |-> 0, max_score |-> 0,
          started_at |-> 0, completed_at |-> 0]

NoAnswers == [i \in {} |-> 0]

Idle == [op |-> "idle", pc |-> "idle", t |-> 0, q |-> 0, val |-> IntV(0),
         snapT |-> NoRow, snapA |-> NoAnswers]

JobIdle == [pc |-> "idle", t |-> 0, snapT |-> NoRow, snapA |-> NoAnswers, todo |-> {}]

NoCall == [op |-> "none", outcome |-> "none", t |-> 0, ret |-> NoRow]

TestIds == DOMAIN tests

\* The answer rows of test t.
AnswersOf(t) == {i \in DOMAIN answers : answers[i].test = t}

\* The session's copy of the answer rows of test t (Test.answers, lazy="selectin").
LoadAnswers(t) == [i \in AnswersOf(t) |-> answers[i]]

\* a.score or 0
ScoreOrZero(s) == IF s = None THEN 0 ELSE s

\* The UPDATE of a column: the new value is written only when it differs from the
\* value the session loaded; otherwise the row keeps what the database holds.
Flush(loaded, new, current) == IF new /= loaded THEN new ELSE current

AInit ==
    /\ tests = <<>>
    /\ answers = <<>>
    /\ req = [r \in Reqs |-> Idle]
    /\ job = JobIdle
    /\ queue = {}
    /\ clock = 1
    /\ used = 0
    /\ began = {}
    /\ last = NoCall

\* A new request arrives and takes the first free slot.
Call(r) ==
    /\ req[r].op = "idle"
    /\ \A r2 \in Reqs : r2 < r => req[r2].op /= "idle"
    /\ used < MaxCalls
    /\ used' = used + 1

\* The request answers: an HTTP error or a response body.
Return(op, outcome, t, ret) ==
    last' = [op |-> op, outcome |-> outcome, t |-> t, ret |-> ret]

(***************************************************************************)
(* The project.  start_time and end_time are instants of the clock, or     *)
(* None when they are not set; allowed tells whether one of the student's  *)
(* e-mail addresses is in project.allowed_students; vector_store whether   *)
(* openai_vector_store_id is set; generations counts the runs of           *)
(* generate_test_questions that stored questions.                          *)
(***************************************************************************)
\* A project the teacher activated, without an end time, with the questions
\* that were generated for it.
ActiveProject ==
    [status |-> "active", vectorization_status |-> "completed", vector_store |-> TRUE,
     start_time |-> None, end_time |-> None, allowed |-> TRUE, generations |-> 1]

\* How many materials the project holds.
MaxMaterials == 2

Materials == 1..MaxMaterials

EnqSlots == {1, 2}

\* No task was dispatched and no request is being served; the materials of
\* the project are vectorized.
KIdle ==
    /\ materials = [m \in Materials |-> 2]
    /\ tasks = <<>>
    /\ enq = [e \in EnqSlots |-> "idle"]

PIdle ==
    /\ project = ActiveProject
    /\ qs = [q \in Questions |-> GeneratedQuestion(q)]
    /\ KIdle

\* student.py lines 431-461: "open" when the test is accessible at the
\* instant now, else the error the handler raises.
Accessible(p, now) ==
    IF p.status = "active"
    THEN IF p.end_time /= None /\ p.end_time < now THEN "ended" ELSE "open"
    ELSE IF p.status = "ready"
    THEN IF p.start_time /= None /\ p.start_time > now THEN "not_started"
         ELSE IF p.end_time /= None /\ p.end_time < now THEN "ended"
         ELSE "open"
    ELSE "not_available"

(***************************************************************************)
(* begin: POST /student/tests/{project_id}/start, start_test_for_student.  *)
(***************************************************************************)
\* Line 473: the status for which begin answers "You have already completed
\* this test".
BeginRejects(status) == status = "completed"

\* A begin that would return the attempt only while it is pending.
BeginReturnsPending(status) == status = "pending"

\* Line 479: the status for which begin returns the existing attempt.
BeginReturns(status) == status = "in-progress"

\* Lines 417-509: the student must be allowed and the test accessible; then
\* the lookup of the student's attempt and what it decides.
BeginCheck(r) ==
    /\ UNCHANGED <<lvars, gvars, pvars>>
    /\ Call(r)
    /\ UNCHANGED <<tests, answers, job, queue, clock>>
    /\ IF ~project.allowed
       THEN \* lines 417-428: 403 "You are not allowed to take this test"
            /\ Return("begin", "forbidden", 0, NoRow)
            /\ UNCHANGED <<req, began>>
       ELSE IF Accessible(project, clock) /= "open"
       THEN \* lines 431-461
            /\ Return("begin", Accessible(project, clock), 0, NoRow)
            /\ UNCHANGED <<req, began>>
       ELSE IF Cardinality(TestIds) >= 2
       THEN \* scalar_one_or_none() raises MultipleResultsFound
            /\ Return("begin", "error", 0, NoRow)
            /\ UNCHANGED <<req, began>>
       ELSE IF TestIds /= {} /\ BeginRejects(tests[1].status)
       THEN /\ Return("begin", "already_completed", 1, NoRow)
            /\ UNCHANGED <<req, began>>
       ELSE IF TestIds /= {} /\ BeginReturns(tests[1].status)
       THEN /\ Return("begin", "existing", 1, tests[1])
            /\ began' = began \cup {[id |-> 1, variant |-> tests[1].variant_number]}
            /\ UNCHANGED req
       ELSE /\ req' = [req EXCEPT ![r] = [Idle EXCEPT !.op = "begin", !.pc = "create"]]
            /\ UNCHANGED <<began, last>>

\* The row with the number of the variant's questions as its maximum score.
NewTestCounted(v) ==
    [status |-> "in-progress", variant_number |-> v, score |-> 0,
     max_score |-> Cardinality(VariantQuestions(v)), started_at |-> clock,
     completed_at |-> 0]

\* The row that lines 549-557 build.
NewTest(v) ==
    [status |-> "in-progress", variant_number |-> v, score |-> 0,
     max_score |-> VariantMaxScore(v), started_at |-> clock, completed_at |-> 0]

\* Lines 511-561: the variant is drawn, the attempt is inserted and committed.
BeginCreate(r) ==
    /\ UNCHANGED <<lvars, gvars, pvars>>
    /\ req[r].op = "begin"
    /\ req[r].pc = "create"
    /\ IF AvailableVariants = {}
       THEN \* lines 519-523: 400 "This test has no questions yet"
            /\ Return("begin", "no_questions", 0, NoRow)
            /\ UNCHANGED <<tests, began, clock>>
       ELSE /\ \E v \in AvailableVariants :
                  /\ tests' = Append(tests, NewTest(v))
                  /\ began' = began \cup {[id |-> Len(tests) + 1, variant |-> v]}
                  /\ Return("begin", "created", Len(tests) + 1, NewTest(v))
            /\ clock' = clock + 1
    /\ req' = [req EXCEPT ![r] = Idle]
    /\ UNCHANGED <<answers, job, queue, used>>

(***************************************************************************)
(* submitAnswer: POST /student/tests/{test_id}/answers, submit_answer.     *)
(***************************************************************************)
\* Lines 669-713: the attempt must be in-progress; the answer row is looked up.
SubmitAnswerRead(r) ==
    /\ UNCHANGED <<lvars, gvars, pvars>>
    /\ Call(r)
    /\ UNCHANGED <<tests, answers, job, queue, clock, began>>
    /\ \E t \in TestIds, q \in Questions \cup DOMAIN qs, val \in AnswerInputs :
          LET found == {i \in AnswersOf(t) : answers[i].question = q} IN
          IF tests[t].status /= "in-progress"
          THEN /\ Return("submit_answer", "not_active", t, NoRow)
               /\ UNCHANGED req
          ELSE IF q \notin DOMAIN qs
          THEN \* lines 701-705: 404 "Question not found"
               /\ Return("submit_answer", "question_not_found", t, NoRow)
               /\ UNCHANGED req
          ELSE IF Cardinality(found) >= 2
          THEN /\ Return("submit_answer", "error", t, NoRow)
               /\ UNCHANGED req
          ELSE /\ req' = [req EXCEPT ![r] = [Idle EXCEPT !.op = "submit_answer",
                              !.pc = "commit", !.t = t, !.q = q, !.val = val,
                              !.snapA = [i \in found |-> answers[i]]]]
               /\ UNCHANGED last

\* The row of an answer.  The table holds the columns grading_status and
\* graded_by (migration 007), but the class Answer maps neither: no INSERT
\* and no UPDATE of the code names them, and they stay NULL.
NewAnswer(t, q, val) ==
    [test |-> t, question |-> q, answer |-> val, is_correct |-> "null", score |-> None,
     feedback |-> "null", grading_status |-> "null", graded_by |-> "null"]

\* Lines 715-726: the row is updated or inserted, and committed.
SubmitAnswerCommit(r) ==
    /\ UNCHANGED <<lvars, gvars, pvars>>
    /\ req[r].op = "submit_answer"
    /\ req[r].pc = "commit"
    /\ LET c == req[r] IN
       IF c.q \notin DOMAIN qs
       THEN \* the question was deleted meanwhile: the INSERT breaks the foreign
            \* key answers.question_id, the UPDATE finds its row deleted
            /\ answers' = answers
            /\ Return("submit_answer", "error", c.t, NoRow)
       ELSE /\ IF DOMAIN c.snapA = {}
               THEN answers' = Append(answers, NewAnswer(c.t, c.q, c.val))
               ELSE answers' = [i \in DOMAIN answers |->
                        IF i \in DOMAIN c.snapA
                        THEN [answers[i] EXCEPT !.answer = Flush(c.snapA[i].answer, c.val, @)]
                        ELSE answers[i]]
            /\ Return("submit_answer", "ok", c.t, NoRow)
    /\ req' = [req EXCEPT ![r] = Idle]
    /\ UNCHANGED <<tests, job, queue, clock, used, began>>

(***************************************************************************)
(* finalize: POST /student/tests/{test_id}/submit, submit_test.            *)
(***************************************************************************)
\* The status for which finalize answers "Test already completed" (line 760).
FinalizeRejects(status) == status = "completed"

\* Lines 745-778: the attempt and its answers are loaded.
FinalizeRead(r) ==
    /\ UNCHANGED <<lvars, gvars, pvars>>
    /\ Call(r)
    /\ UNCHANGED <<tests, answers, job, queue, clock, began>>
    /\ \E t \in TestIds :
          IF FinalizeRejects(tests[t].status)
          THEN /\ Return("finalize", "already_completed", t, NoRow)
               /\ UNCHANGED req
          ELSE /\ req' = [req EXCEPT ![r] = [Idle EXCEPT !.op = "finalize",
                              !.pc = "commit", !.t = t, !.snapT = tests[t],
                              !.snapA = LoadAnswers(t)]]
               /\ UNCHANGED last

\* Lines 788-792: the answers whose question belongs to the attempt's variant.
GradedRows(c) ==
    {i \in DOMAIN c.snapA : /\ c.snapA[i].question \in DOMAIN qs
                            /\ QVariant(c.snapA[i].question) = c.snapT.variant_number}

\* Lines 794-866: what the loop stores for answer row i of the session.
FinalizeGrade(c, i) == GradeAnswer(c.snapA[i].question, c.snapA[i].answer)

\* Line 866: total_score.
FinalizeTotal(c) ==
    SumOver(GradedRows(c), [i \in DOMAIN c.snapA |-> FinalizeGrade(c, i).score])

\* Lines 864-879: the graded answers and the attempt are written and committed.
FinalizeCommit(r) ==
    /\ UNCHANGED <<lvars, gvars, pvars>>
    /\ req[r].op = "finalize"
    /\ req[r].pc = "commit"
    /\ LET c == req[r]
           t == c.t
       IN /\ answers' = [i \in 1..Len(answers) |->
                 IF i \in GradedRows(c)
                 THEN [answers[i] EXCEPT
                         !.is_correct = Flush(c.snapA[i].is_correct,
                                              FinalizeGrade(c, i).is_correct, @),
                         !.score = Flush(c.snapA[i].score, FinalizeGrade(c, i).score, @)]
                 ELSE answers[i]]
          /\ tests' = [tests EXCEPT ![t] = [@ EXCEPT
                 !.status = Flush(c.snapT.status, "completed", @),
                 !.completed_at = clock,
                 !.score = Flush(c.snapT.score, FinalizeTotal(c), @),
                 !.max_score = Flush(c.snapT.max_score,
                                     VariantMaxScore(c.snapT.variant_number), @)]]
          /\ Return("finalize", "ok", t, NoRow)
    /\ clock' = clock + 1
    /\ req' = [req EXCEPT ![r] = Idle]
    /\ UNCHANGED <<job, queue, used, began>>

(***************************************************************************)
(* POST /tests/{test_id}/start, start_test (tests.py).                     *)
(***************************************************************************)
\* Lines 275-295.
StartRead(r) ==
    /\ UNCHANGED <<lvars, gvars, pvars>>
    /\ Call(r)
    /\ UNCHANGED <<tests, answers, job, queue, clock, began>>
    /\ \E t \in TestIds :
          IF tests[t].status \notin {"pending", "in-progress"}
          THEN /\ Return("start", "cannot_start", t, NoRow)
               /\ UNCHANGED req
          ELSE /\ req' = [req EXCEPT ![r] = [Idle EXCEPT !.op = "start",
                              !.pc = "commit", !.t = t, !.snapT = tests[t]]]
               /\ UNCHANGED last

\* Lines 297-303.
StartCommit(r) ==
    /\ UNCHANGED <<lvars, gvars, pvars>>
    /\ req[r].op = "start"
    /\ req[r].pc = "commit"
    /\ LET c == req[r] IN
          /\ tests' = [tests EXCEPT ![c.t] = [@ EXCEPT
                 !.status = Flush(c.snapT.status, "in-progress", @),
                 !.started_at = clock]]
          /\ Return("start", "ok", c.t, NoRow)
    /\ clock' = clock + 1
    /\ req' = [req EXCEPT ![r] = Idle]
    /\ UNCHANGED <<answers, job, queue, used, began>>

(***************************************************************************)
(* POST /tests/{test_id}/submit, submit_test (tests.py).  An answer of the *)
(* submission that names a question of the project reaches                 *)
(* Answer(..., grading_status=..., graded_by=...) at line 436; the Answer  *)
(* model has no such attributes, so the constructor raises TypeError and   *)
(* nothing is committed.  Only a submission without such an answer         *)
(* reaches the commit.                                                     *)
(***************************************************************************)
\* Lines 340-446.
SubmitRequestRead(r) ==
    /\ UNCHANGED <<lvars, gvars, pvars>>
    /\ Call(r)
    /\ UNCHANGED <<tests, answers, job, queue, clock, began>>
    /\ \E t \in TestIds, hasAnswer \in BOOLEAN :
          IF tests[t].status /= "in-progress"
          THEN /\ Return("submit_request", "not_in_progress", t, NoRow)
               /\ UNCHANGED req
          ELSE IF hasAnswer
          THEN /\ Return("submit_request", "error", t, NoRow)
               /\ UNCHANGED req
          ELSE /\ req' = [req EXCEPT ![r] = [Idle EXCEPT !.op = "submit_request",
                              !.pc = "commit", !.t = t, !.snapT = tests[t]]]
               /\ UNCHANGED last

\* Lines 448-453.
SubmitRequestCommit(r) ==
    /\ UNCHANGED <<lvars, gvars, pvars>>
    /\ req[r].op = "submit_request"
    /\ req[r].pc = "commit"
    /\ LET c == req[r] IN
          /\ tests' = [tests EXCEPT ![c.t] = [@ EXCEPT
                 !.status = Flush(c.snapT.status, "completed", @),
                 !.completed_at = clock,
                 !.score = Flush(c.snapT.score, 0, @)]]
          /\ Return("submit_request", "ok", c.t, NoRow)
    /\ clock' = clock + 1
    /\ req' = [req EXCEPT ![r] = Idle]
    /\ UNCHANGED <<answers, job, queue, used, began>>

(***************************************************************************)
(* The grading job: Celery task grade_test_written_answers(test_id).       *)
(***************************************************************************)
\* What grade_answer / grade_matching hand back: a grade, or _error_result.
OracleResults ==
    {[success |-> TRUE, score |-> 7, overallFeedback |-> "feedback", gradedBy |-> "ai"],
     [success |-> FALSE, score |-> 0,
      overallFeedback |-> "Unable to grade this answer automatically. It will be reviewed manually.",
      gradedBy |-> "pending_manual_review"]}

\* The task is sent to the "tests" queue.  No handler of the API sends it; it
\* is sent from outside (celery call), for any attempt.
Enqueue ==
    /\ UNCHANGED <<lvars, gvars, pvars>>
    /\ used < MaxCalls
    /\ used' = used + 1
    /\ \E t \in TestIds \ queue : queue' = queue \cup {t}
    /\ UNCHANGED <<tests, answers, req, job, clock, began, last>>

\* Lines 164-172: the answers to essay, short-answer and matching questions.
WrittenRows(t) == {i \in AnswersOf(t) : QType(answers[i].question) \in WrittenTypes}

\* A worker that goes on to the final commit when no written answer is found.
JobLoadAlways ==
    /\ UNCHANGED <<lvars, gvars, pvars>>
    /\ job.pc = "idle"
    /\ \E t \in queue :
          /\ queue' = queue \ {t}
          /\ job' = [pc |-> "grade", t |-> t, snapT |-> tests[t],
                     snapA |-> LoadAnswers(t), todo |-> WrittenRows(t)]
          /\ UNCHANGED last
    /\ UNCHANGED <<tests, answers, req, clock, used, began>>

\* Lines 150-178: the worker takes the task and loads the attempt.
JobLoad ==
    /\ UNCHANGED <<lvars, gvars, pvars>>
    /\ job.pc = "idle"
    /\ \E t \in queue :
          /\ queue' = queue \ {t}
          /\ IF WrittenRows(t) = {}
             THEN /\ Return("job", "no_written", t, NoRow)
                  /\ UNCHANGED job
             ELSE /\ job' = [pc |-> "grade", t |-> t, snapT |-> tests[t],
                             snapA |-> LoadAnswers(t), todo |-> WrittenRows(t)]
                  /\ UNCHANGED last
    /\ UNCHANGED <<tests, answers, req, clock, used, began>>

\* Line 236: answer.is_correct = percentage >= 60.
WrittenCorrect(q, score) == IF score * 100 >= 60 * QPoints(q) THEN "true" ELSE "false"

\* Lines 181-238: one answer is graded by the oracle and committed.
JobGrade ==
    /\ UNCHANGED <<lvars, gvars, pvars>>
    /\ job.pc = "grade"
    /\ \E i \in job.todo, res \in OracleResults :
          LET q == job.snapA[i].question
              graded == [job.snapA[i] EXCEPT
                            !.score = res.score,
                            !.feedback = res.overallFeedback,
                            !.graded_by = res.gradedBy,
                            !.grading_status = IF res.success THEN "completed" ELSE "failed",
                            !.is_correct = WrittenCorrect(q, res.score)]
          IN \* the UPDATE names the mapped columns only
             /\ answers' = [answers EXCEPT ![i] = [@ EXCEPT
                    !.score = Flush(job.snapA[i].score, graded.score, @),
                    !.feedback = Flush(job.snapA[i].feedback, graded.feedback, @),
                    !.is_correct = Flush(job.snapA[i].is_correct, graded.is_correct, @)]]
             /\ job' = [job EXCEPT !.snapA = [@ EXCEPT ![i] = graded],
                                   !.todo = @ \ {i}]
    /\ UNCHANGED <<tests, req, queue, clock, used, began, last>>

\* Lines 241-245: the grading raises; the handler sets grading_status and
\* graded_by on the object of the session and commits: the answer keeps its
\* score and its feedback, and no column of its row changes.
JobGradeRaises ==
    /\ UNCHANGED <<lvars, gvars, pvars>>
    /\ job.pc = "grade"
    /\ \E i \in job.todo :
          job' = [job EXCEPT !.todo = @ \ {i},
                             !.snapA = [@ EXCEPT ![i] = [@ EXCEPT
                                 !.grading_status = "failed",
                                 !.graded_by = "pending_manual_review"]]]
    /\ UNCHANGED <<tests, answers, req, queue, clock, used, began, last>>

\* Lines 248-252: the answers of the attempt as the session sees them: the
\* rows it already holds keep the session's values, new rows are loaded.
JobTotal ==
    SumOver(AnswersOf(job.t),
            [i \in DOMAIN answers |->
                ScoreOrZero(IF i \in DOMAIN job.snapA THEN job.snapA[i].score
                            ELSE answers[i].score)])

\* Lines 255-257: the status the job leaves.
JobStatus(loaded) == IF loaded = "completed" THEN "graded" ELSE loaded

\* Lines 247-267: the score is recomputed and the attempt committed.
JobFinish ==
    /\ UNCHANGED <<lvars, gvars, pvars>>
    /\ job.pc = "grade"
    /\ job.todo = {}
    /\ tests' = [tests EXCEPT ![job.t] = [@ EXCEPT
           !.score = Flush(job.snapT.score, JobTotal, @),
           !.status = Flush(job.snapT.status, JobStatus(job.snapT.status), @)]]
    /\ Return("job", "done", job.t, NoRow)
    /\ job' = JobIdle
    /\ UNCHANGED <<answers, req, queue, clock, used, began>>

(***************************************************************************)
(* The lobby manager.  All coroutines run on one event loop: the code      *)
(* between two awaits is one step.  asyncio.Lock is acquired without       *)
(* yielding when it is free; only close_lobby awaits while holding it,     *)
(* after it popped the lobby: with the one project of the model, a         *)
(* coroutine that finds the lobby with get_lobby finds the lock free.      *)
(* A broadcast hands the message to every recipient it finds when it is    *)
(* called; a send to a closed websocket is swallowed (LobbyConnection.send)*)
(***************************************************************************)
\* project.max_students of the one project of the model.
Capacity == 2

\* How many websocket connections are opened, and how many client actions made.
MaxConns == 4
MaxLobbyCalls == 5

ConnIds == 1..MaxConns

Users == 1..(Capacity + 1)

\* got: the types of the messages the connection has received.
NoConn == [role |-> "none", user |-> 0, pc |-> "none", lobby |-> 0, ws |-> "none",
           got |-> {}]

NoMsg == [type |-> "none", to |-> {}]

NoMap == [u \in {} |-> 0]

\* Lobby.__init__
NewLobby(max_students) ==
    [max_students |-> max_students, status |-> "waiting", teacher_connection |-> 0,
     student_connections |-> NoMap, students |-> NoMap]

\* No lobby_update was received.
NoData == [status |-> "none", students |-> NoMap, max_students |-> 0]

\* The lobby manager after its construction (lines 135-137); record tells
\* whether the data of the lobby_update messages is recorded.
LStart(record) ==
    /\ lobbies = <<>>
    /\ registry = 0
    /\ lock = 0
    /\ conns = [c \in ConnIds |-> NoConn]
    /\ sent = NoMsg
    /\ lused = 0
    /\ view = [on |-> record, of |-> [c \in ConnIds |-> NoData]]

LInit == LStart(FALSE)

\* A score as the quotient n / d.
Frac(n, d) == [n |-> n, d |-> d]

NoQuestion == [question_type |-> "none", correct_answer |-> NullV, points |-> 0,
               expected_keywords |-> <<>>, matching_pairs |-> <<>>]

NoGrade == [path |-> "none", raises |-> "none", is_correct |-> "false", score |-> Frac(0, 1)]

\* No answer is being graded.
GIdle ==
    /\ gq = NoQuestion
    /\ ga = NullV
    /\ gout = NoGrade

Init == AInit /\ LInit /\ GIdle /\ PIdle

\* Lobby.student_count
StudentCount(lobby) == Cardinality(DOMAIN lobby.students)

\* An is_full that lets one student more in.
IsFullStrict(lobby) == StudentCount(lobby) > lobby.max_students

\* Lobby.is_full
IsFull(lobby) == StudentCount(lobby) >= lobby.max_students

\* A new websocket connection: the first unused one.
Fresh(c) ==
    /\ conns[c].role = "none"
    /\ \A c2 \in ConnIds : c2 < c => conns[c2].role /= "none"

ClientAction ==
    /\ lused < MaxLobbyCalls
    /\ lused' = lused + 1

\* Lobby.broadcast: the connections a message goes to.
Recipients(lobby, exclude_user) ==
    (IF lobby.teacher_connection /= 0 /\ conns[lobby.teacher_connection].user /= exclude_user
     THEN {lobby.teacher_connection} ELSE {})
    \cup {lobby.student_connections[u] :
             u \in {x \in DOMAIN lobby.student_connections : x /= exclude_user}}

\* The connections after msg was sent to the connections of to.
Deliver(cs, to, msg) ==
    [c \in ConnIds |->
        IF c \in to /\ cs[c].ws = "open"
        THEN [cs[c] EXCEPT !.got = @ \cup {msg}]
        ELSE cs[c]]

\* The step sends msg to the connections of to and leaves the connections cs.
Send(cs, to, msg) ==
    /\ conns' = Deliver(cs, to, msg)
    /\ sent' = [type |-> msg, to |-> {c \in to : cs[c].ws = "open"}]
    /\ view' = view

\* The step sends nothing and leaves the connections cs.
Silent(cs) ==
    /\ conns' = cs
    /\ sent' = NoMsg
    /\ view' = view

\* A lobby_update that reports every student as waiting.
UpdateDataUnready(lobby) ==
    [status |-> lobby.status,
     students |-> [u \in DOMAIN lobby.students |-> "waiting"],
     max_students |-> lobby.max_students]

\* broadcast_lobby_update, lines 109-119: the data of the message, built from
\* the lobby when the broadcast is called: its status, its students with
\* their readiness, max_students.
UpdateData(lobby) ==
    [status |-> lobby.status, students |-> lobby.students,
     max_students |-> lobby.max_students]

\* broadcast_lobby_update, lines 109-121: lobby_update with the data of the
\* lobby goes to every connection the lobby has registered; the step leaves
\* the connections cs.
SendUpdate(cs, lobby) ==
    LET to == Recipients(lobby, -1) IN
    /\ conns' = Deliver(cs, to, "lobby_update")
    /\ sent' = [type |-> "lobby_update", to |-> {c \in to : cs[c].ws = "open"}]
    /\ view' = [view EXCEPT !.of = [c \in ConnIds |->
                    IF view.on /\ c \in to /\ cs[c].ws = "open"
                    THEN UpdateData(lobby) ELSE @[c]]]

\* A teacher user id, distinct from every student's.
TeacherUser == 0

(***************************************************************************)
(* connect_teacher, lines 174-191.                                         *)
(***************************************************************************)
\* The handler accepted the websocket; the lock is awaited when it is held.
ConnectTeacherArrive(c) ==
    /\ Fresh(c)
    /\ ClientAction
    /\ Silent([conns EXCEPT ![c] = [NoConn EXCEPT !.role = "teacher",
                   !.user = TeacherUser, !.pc = "ct_lock", !.ws = "open"]])
    /\ UNCHANGED <<lobbies, registry, lock>>
    /\ UNCHANGED <<avars, gvars, pvars>>

\* A get_or_create_lobby that replaces the lobby of the project by a new one.
GetOrCreateLobbyFresh ==
    IF registry = 0 THEN Append(lobbies, NewLobby(Capacity))
    ELSE [lobbies EXCEPT ![registry] = NewLobby(Capacity)]

\* get_or_create_lobby, lines 139-143: a lobby is created only when the
\* project has none; the lobby it has is returned as it is.
GetOrCreateLobby ==
    IF registry = 0 THEN Append(lobbies, NewLobby(Capacity)) ELSE lobbies

\* Lines 184-189: get_or_create_lobby, the teacher is registered, lobby_update.
ConnectTeacher(c) ==
    /\ conns[c].pc = "ct_lock"
    /\ lock = 0
    /\ LET L == IF registry = 0 THEN Len(lobbies) + 1 ELSE registry
           base == GetOrCreateLobby
           lobby == [base[L] EXCEPT !.teacher_connection = c]
           cs == [conns EXCEPT ![c] = [@ EXCEPT !.pc = "loop", !.lobby = L]]
       IN /\ lobbies' = [base EXCEPT ![L] = lobby]
          /\ registry' = L
          /\ SendUpdate(cs, lobby)
    /\ UNCHANGED <<lock, lused>>
    /\ UNCHANGED <<avars, gvars, pvars>>

(***************************************************************************)
(* connect_student, lines 193-255.                                         *)
(***************************************************************************)
\* A rejection that sends the error frame and leaves the websocket open.
RejectedOpen(frame) ==
    [NoConn EXCEPT !.role = "student", !.pc = "done", !.ws = "open", !.got = {frame}]

\* Lines 206-211, 214-220, 223-229: accept, the error frame, close; the
\* handler returns (lobby.py lines 185-186).
Rejected(frame) ==
    [NoConn EXCEPT !.role = "student", !.pc = "done", !.ws = "closed", !.got = {frame}]

\* Lines 203-230: the three checks, in the order of the code.
JoinVerdict ==
    IF registry = 0 THEN "error_not_found"
    ELSE IF IsFull(lobbies[registry]) THEN "error_full"
    ELSE IF lobbies[registry].status /= "waiting" THEN "error_closed"
    ELSE "ok"

\* The user of a new student connection: one seen before, or the next new
\* one (users are interchangeable, so new users come in the order 1, 2, ...).
JoiningUsers ==
    {u \in Users : \A v \in Users :
        v < u => \E c \in ConnIds : conns[c].role = "student" /\ conns[c].user = v}

\* Lines 203-232: the checks, then the error frame or websocket.accept().
ConnectStudentCheck(c) ==
    /\ Fresh(c)
    /\ ClientAction
    /\ \E u \in JoiningUsers :
          LET verdict == JoinVerdict IN
          IF verdict = "ok"
          THEN Silent([conns EXCEPT ![c] = [NoConn EXCEPT !.role = "student", !.user = u,
                           !.pc = "accepted", !.lobby = registry, !.ws = "open"]])
          ELSE /\ conns' = [conns EXCEPT ![c] = [Rejected(verdict) EXCEPT !.user = u]]
               /\ sent' = [type |-> verdict, to |-> {c}]
               /\ view' = view
    /\ UNCHANGED <<lobbies, registry, lock>>
    /\ UNCHANGED <<avars, gvars, pvars>>

\* A join whose student_joined goes to every participant, the joiner included.
ConnectStudentAddAll(c) ==
    /\ conns[c].pc = "accepted"
    /\ lock = 0
    /\ LET L == conns[c].lobby
           u == conns[c].user
           lobby == [lobbies[L] EXCEPT
                        !.students = [x \in DOMAIN @ \cup {u} |->
                                         IF x = u THEN "waiting" ELSE @[x]],
                        !.student_connections = [x \in DOMAIN @ \cup {u} |->
                                         IF x = u THEN c ELSE @[x]]]
           cs == [conns EXCEPT ![c] = [@ EXCEPT !.pc = "joined"]]
       IN /\ lobbies' = [lobbies EXCEPT ![L] = lobby]
          /\ Send(cs, Recipients(lobby, -1), "student_joined")
    /\ UNCHANGED <<registry, lock, lused>>
    /\ UNCHANGED <<avars, gvars, pvars>>

\* Lines 234-250: under the lock the student is added; student_joined goes to
\* the others.
ConnectStudentAdd(c) ==
    /\ conns[c].pc = "accepted"
    /\ lock = 0
    /\ LET L == conns[c].lobby
           u == conns[c].user
           lobby == [lobbies[L] EXCEPT
                        !.students = [x \in DOMAIN @ \cup {u} |->
                                         IF x = u THEN "waiting" ELSE @[x]],
                        !.student_connections = [x \in DOMAIN @ \cup {u} |->
                                         IF x = u THEN c ELSE @[x]]]
           cs == [conns EXCEPT ![c] = [@ EXCEPT !.pc = "joined"]]
       IN /\ lobbies' = [lobbies EXCEPT ![L] = lobby]
          /\ Send(cs, Recipients(lobby, u), "student_joined")
    /\ UNCHANGED <<registry, lock, lused>>
    /\ UNCHANGED <<avars, gvars, pvars>>

\* Line 253: lobby_update to everyone; the handler enters its read loop.
ConnectStudentUpdate(c) ==
    /\ conns[c].pc = "joined"
    /\ SendUpdate([conns EXCEPT ![c] = [@ EXCEPT !.pc = "loop"]], lobbies[conns[c].lobby])
    /\ UNCHANGED <<lobbies, registry, lock, lused>>
    /\ UNCHANGED <<avars, gvars, pvars>>

(***************************************************************************)
(* set_student_ready, lines 276-293 (student messages "ready", "not_ready").*)
(***************************************************************************)
\* Lines 278-292: the flag is set without the lock; student_ready goes out.
SetReady(c) ==
    /\ conns[c].role = "student"
    /\ conns[c].pc = "loop"
    /\ conns[c].ws = "open"
    /\ ClientAction
    /\ registry /= 0
    /\ conns[c].user \in DOMAIN lobbies[registry].students
    /\ \E is_ready \in BOOLEAN :
          LET lobby == [lobbies[registry] EXCEPT
                           !.students = [@ EXCEPT ![conns[c].user] =
                                            IF is_ready THEN "ready" ELSE "waiting"]]
          IN lobbies' = [lobbies EXCEPT ![registry] = lobby]
    /\ Send([conns EXCEPT ![c] = [@ EXCEPT !.pc = "ready2", !.lobby = registry]],
                        Recipients(lobbies[registry], -1), "student_ready")
    /\ UNCHANGED <<registry, lock>>
    /\ UNCHANGED <<avars, gvars, pvars>>

\* Line 293: lobby_update.
SetReadyUpdate(c) ==
    /\ conns[c].pc = "ready2"
    /\ SendUpdate([conns EXCEPT ![c] = [@ EXCEPT !.pc = "loop"]], lobbies[conns[c].lobby])
    /\ UNCHANGED <<lobbies, registry, lock, lused>>
    /\ UNCHANGED <<avars, gvars, pvars>>

(***************************************************************************)
(* disconnect_student, lines 257-274, called by the student's handler on   *)
(* "leave" and on WebSocketDisconnect (lobby.py lines 201-212).            *)
(***************************************************************************)
\* The handler has returned: the websocket is closed.
Ended(conn) == [conn EXCEPT !.pc = "done", !.ws = "closed"]

\* A disconnect that broadcasts student_left also when no student was popped.
PoppedLoud(c, L) ==
    LET u == conns[c].user
        lobby == [lobbies[L] EXCEPT
                     !.students = [x \in DOMAIN @ \ {u} |-> @[x]],
                     !.student_connections = [x \in DOMAIN @ \ {u} |-> @[x]]]
    IN /\ lobbies' = [lobbies EXCEPT ![L] = lobby]
       /\ Send([conns EXCEPT ![c] = [@ EXCEPT !.pc = "left2", !.lobby = L,
                                                            !.ws = "closed"]],
                             Recipients(lobby, -1), "student_left")

\* A disconnect that pops the student and leaves the student's connection
\* registered.
PoppedHalf(c, L) ==
    LET u == conns[c].user
        lobby == [lobbies[L] EXCEPT !.students = [x \in DOMAIN @ \ {u} |-> @[x]]]
    IN /\ lobbies' = [lobbies EXCEPT ![L] = lobby]
       /\ IF u \in DOMAIN lobbies[L].students
          THEN Send([conns EXCEPT ![c] = [@ EXCEPT !.pc = "left2", !.lobby = L,
                                                               !.ws = "closed"]],
                                Recipients(lobby, -1), "student_left")
          ELSE Silent([conns EXCEPT ![c] = Ended(@)])

\* Lines 263-273 on lobby L: the user is popped; student_left goes out when
\* a student was popped.
Popped(c, L) ==
    LET u == conns[c].user
        lobby == [lobbies[L] EXCEPT
                     !.students = [x \in DOMAIN @ \ {u} |-> @[x]],
                     !.student_connections = [x \in DOMAIN @ \ {u} |-> @[x]]]
    IN /\ lobbies' = [lobbies EXCEPT ![L] = lobby]
       /\ IF u \in DOMAIN lobbies[L].students
          THEN Send([conns EXCEPT ![c] = [@ EXCEPT !.pc = "left2", !.lobby = L,
                                                               !.ws = "closed"]],
                                Recipients(lobby, -1), "student_left")
          ELSE Silent([conns EXCEPT ![c] = Ended(@)])

\* The student leaves or its connection drops, or the server closed it.
Disconnect(c) ==
    /\ conns[c].role = "student"
    /\ conns[c].pc = "loop"
    /\ IF conns[c].ws = "open" THEN ClientAction ELSE UNCHANGED lused
    /\ IF registry = 0
       THEN /\ Silent([conns EXCEPT ![c] = Ended(@)])
            /\ UNCHANGED lobbies
       ELSE /\ lock = 0
            /\ Popped(c, registry)
    /\ UNCHANGED <<registry, lock>>
    /\ UNCHANGED <<avars, gvars, pvars>>

\* Line 274: lobby_update; the handler returns.
DisconnectUpdate(c) ==
    /\ conns[c].pc = "left2"
    /\ SendUpdate([conns EXCEPT ![c] = Ended(@)], lobbies[conns[c].lobby])
    /\ UNCHANGED <<lobbies, registry, lock, lused>>
    /\ UNCHANGED <<avars, gvars, pvars>>

(***************************************************************************)
(* disconnect_student called by the teacher's handler on "kick_student"    *)
(* (lobby.py lines 106-109), for any user id the message names.            *)
(***************************************************************************)
\* Lines 259-273 on the lobby of the project: user u is popped; student_left
\* goes out when a student was popped.  The websocket of the kicked student
\* is not closed.
KickStudent(c) ==
    /\ conns[c].role = "teacher"
    /\ conns[c].pc = "loop"
    /\ conns[c].ws = "open"
    /\ ClientAction
    /\ \E u \in Users :
          IF registry = 0
          THEN /\ Silent(conns)
               /\ UNCHANGED lobbies
          ELSE /\ lock = 0
               /\ LET lobby == [lobbies[registry] EXCEPT
                                   !.students = [x \in DOMAIN @ \ {u} |-> @[x]],
                                   !.student_connections = [x \in DOMAIN @ \ {u} |-> @[x]]]
                  IN /\ lobbies' = [lobbies EXCEPT ![registry] = lobby]
                     /\ IF u \in DOMAIN lobbies[registry].students
                        THEN Send([conns EXCEPT ![c] = [@ EXCEPT !.pc = "kick2",
                                                                  !.lobby = registry]],
                                  Recipients(lobby, -1), "student_left")
                        ELSE Silent(conns)
    /\ UNCHANGED <<registry, lock>>
    /\ UNCHANGED <<avars, gvars, pvars>>

\* Line 274: lobby_update; the teacher's handler reads the next message.
KickStudentUpdate(c) ==
    /\ conns[c].pc = "kick2"
    /\ SendUpdate([conns EXCEPT ![c] = [@ EXCEPT !.pc = "loop"]], lobbies[conns[c].lobby])
    /\ UNCHANGED <<lobbies, registry, lock, lused>>
    /\ UNCHANGED <<avars, gvars, pvars>>

(***************************************************************************)
(* start_test, lines 295-314 (teacher message "start_test").               *)
(***************************************************************************)
\* Line 312: the connections test_started goes to.
StartRecipients(lobby) == Recipients(lobby, -1)

\* Lines 301-312 on lobby L: the status is set, test_started goes out.
Started(c, L) ==
    /\ lobbies' = [lobbies EXCEPT ![L] = [@ EXCEPT !.status = "active"]]
    /\ Send([conns EXCEPT ![c] = [@ EXCEPT !.pc = "loop"]],
                        StartRecipients(lobbies[L]), "test_started")

StartTest(c) ==
    /\ conns[c].role = "teacher"
    /\ conns[c].pc = "loop"
    /\ conns[c].ws = "open"
    /\ ClientAction
    /\ registry /= 0
    /\ lock = 0
    /\ Started(c, registry)
    /\ UNCHANGED <<registry, lock>>
    /\ UNCHANGED <<avars, gvars, pvars>>

(***************************************************************************)
(* close_lobby, lines 149-172 (teacher message "close_lobby").             *)
(***************************************************************************)
\* Lines 151-159: under the lock the lobby is popped; lobby_closed goes out.
ClosePop(c) ==
    /\ lock = 0
    /\ registry' = 0
    /\ IF registry = 0
       THEN /\ Silent([conns EXCEPT ![c] = Ended(@)])
            /\ UNCHANGED lock
       ELSE /\ lock' = c
            /\ Send([conns EXCEPT ![c] = [@ EXCEPT !.pc = "closing",
                                                               !.lobby = registry]],
                                Recipients(lobbies[registry], -1), "lobby_closed")
    /\ UNCHANGED lobbies

CloseLobby(c) ==
    /\ conns[c].role = "teacher"
    /\ conns[c].pc = "loop"
    /\ conns[c].ws = "open"
    /\ ClientAction
    /\ IF lock = 0
       THEN ClosePop(c)
       ELSE /\ Silent([conns EXCEPT ![c] = [@ EXCEPT !.pc = "cl_lock"]])
            /\ UNCHANGED <<lobbies, registry, lock>>
    /\ UNCHANGED <<avars, gvars, pvars>>

\* close_lobby got the lock it was waiting for.
CloseLobbyLocked(c) ==
    /\ conns[c].pc = "cl_lock"
    /\ ClosePop(c)
    /\ UNCHANGED lused
    /\ UNCHANGED <<avars, gvars, pvars>>

\* Lines 161-172: every websocket of the lobby is closed, the lock released;
\* the teacher's handler leaves its loop (lobby.py line 113).
CloseLobbyFinish(c) ==
    /\ conns[c].pc = "closing"
    /\ LET lobby == lobbies[conns[c].lobby]
           closed == Recipients(lobby, -1)
       IN Silent([x \in ConnIds |->
                       IF x = c THEN Ended(conns[x])
                       ELSE IF x \in closed THEN [conns[x] EXCEPT !.ws = "closed"]
                       ELSE conns[x]])
    /\ lock' = 0
    /\ UNCHANGED <<lobbies, registry, lused>>
    /\ UNCHANGED <<avars, gvars, pvars>>

\* The teacher's connection drops: the handler ends, the lobby stays open
\* (lobby.py lines 121-123).
TeacherDrop(c) ==
    /\ conns[c].role = "teacher"
    /\ conns[c].pc = "loop"
    /\ IF conns[c].ws = "open" THEN ClientAction ELSE UNCHANGED lused
    /\ Silent([conns EXCEPT ![c] = Ended(@)])
    /\ UNCHANGED <<lobbies, registry, lock>>
    /\ UNCHANGED <<avars, gvars, pvars>>

(***************************************************************************)
(* The except clauses of the two handlers (lobby.py lines 124-133 and      *)
(* 213-222): a message that is not JSON raises json.JSONDecodeError, a     *)
(* JSON value that is no object raises AttributeError; the handler sends   *)
(* an error frame on its own websocket and returns.  No operation of the   *)
(* manager is called.                                                      *)
(***************************************************************************)
\* The connection after the error frame and the return of its handler.
Failed(conn) == [Ended(conn) EXCEPT !.got = @ \cup {"error"}]

\* A handler that sends its error frame to every participant of the lobby.
StudentMalformedLoud(c) ==
    /\ conns[c].role = "student"
    /\ conns[c].pc = "loop"
    /\ conns[c].ws = "open"
    /\ ClientAction
    /\ Send([conns EXCEPT ![c] = Failed(@)],
            IF registry = 0 THEN {} ELSE Recipients(lobbies[registry], -1), "error")
    /\ UNCHANGED <<lobbies, registry, lock>>
    /\ UNCHANGED <<avars, gvars, pvars>>

\* lobby.py lines 213-222: the student's message is malformed.
StudentMalformed(c) ==
    /\ conns[c].role = "student"
    /\ conns[c].pc = "loop"
    /\ conns[c].ws = "open"
    /\ ClientAction
    /\ conns' = [conns EXCEPT ![c] = Failed(@)]
    /\ sent' = [type |-> "error", to |-> {c}]
    /\ view' = view
    /\ UNCHANGED <<lobbies, registry, lock>>
    /\ UNCHANGED <<avars, gvars, pvars>>

\* lobby.py lines 124-133: the teacher's message is malformed.
TeacherMalformed(c) ==
    /\ conns[c].role = "teacher"
    /\ conns[c].pc = "loop"
    /\ conns[c].ws = "open"
    /\ ClientAction
    /\ conns' = [conns EXCEPT ![c] = Failed(@)]
    /\ sent' = [type |-> "error", to |-> {c}]
    /\ view' = view
    /\ UNCHANGED <<lobbies, registry, lock>>
    /\ UNCHANGED <<avars, gvars, pvars>>

(***************************************************************************)
(* complete_test, lines 316-334.  No handler of the repository calls it:   *)
(* it is an operation of the manager, called here by a task that holds no  *)
(* websocket (role "task").                                                *)
(***************************************************************************)
\* Line 331: the connections test_completed goes to.
CompleteRecipients(lobby) == Recipients(lobby, -1)

\* A complete_test that keeps the lock while it broadcasts, sleeps and calls
\* close_lobby.
CompleteTestHolding(c) ==
    /\ Fresh(c)
    /\ ClientAction
    /\ registry /= 0
    /\ lock = 0
    /\ lock' = c
    /\ lobbies' = [lobbies EXCEPT ![registry] = [@ EXCEPT !.status = "completed"]]
    /\ Send([conns EXCEPT ![c] = [NoConn EXCEPT !.role = "task", !.pc = "sleep",
                                                       !.lobby = registry]],
                        CompleteRecipients(lobbies[registry]), "test_completed")
    /\ UNCHANGED registry
    /\ UNCHANGED <<avars, gvars, pvars>>

\* Lines 318-331: the status is set under the lock, test_completed goes out;
\* the task sleeps (line 333).
CompleteTest(c) ==
    /\ Fresh(c)
    /\ ClientAction
    /\ registry /= 0
    /\ lock = 0
    /\ lobbies' = [lobbies EXCEPT ![registry] = [@ EXCEPT !.status = "completed"]]
    /\ Send([conns EXCEPT ![c] = [NoConn EXCEPT !.role = "task", !.pc = "sleep",
                                                       !.lobby = registry]],
                        CompleteRecipients(lobbies[registry]), "test_completed")
    /\ UNCHANGED <<registry, lock>>
    /\ UNCHANGED <<avars, gvars, pvars>>

\* Line 334: after the sleep, close_lobby.
CompleteTestClose(c) ==
    /\ conns[c].pc = "sleep"
    /\ IF lock = 0
       THEN ClosePop(c)
       ELSE /\ Silent([conns EXCEPT ![c] = [@ EXCEPT !.pc = "cl_lock"]])
            /\ UNCHANGED <<lobbies, registry, lock>>
    /\ UNCHANGED lused
    /\ UNCHANGED <<avars, gvars, pvars>>

LNext ==
    \/ \E c \in ConnIds : ConnectTeacherArrive(c)
    \/ \E c \in ConnIds : ConnectTeacher(c)
    \/ \E c \in ConnIds : ConnectStudentCheck(c)
    \/ \E c \in ConnIds : ConnectStudentAdd(c)
    \/ \E c \in ConnIds : ConnectStudentUpdate(c)
    \/ \E c \in ConnIds : SetReady(c)
    \/ \E c \in ConnIds : SetReadyUpdate(c)
    \/ \E c \in ConnIds : Disconnect(c)
    \/ \E c \in ConnIds : DisconnectUpdate(c)
    \/ \E c \in ConnIds : StartTest(c)
    \/ \E c \in ConnIds : CloseLobby(c)
    \/ \E c \in ConnIds : CloseLobbyLocked(c)
    \/ \E c \in ConnIds : CloseLobbyFinish(c)
    \/ \E c \in ConnIds : TeacherDrop(c)

ANext ==
    \/ \E r \in Reqs : BeginCheck(r)
    \/ \E r \in Reqs : BeginCreate(r)
    \/ \E r \in Reqs : SubmitAnswerRead(r)
    \/ \E r \in Reqs : SubmitAnswerCommit(r)
    \/ \E r \in Reqs : FinalizeRead(r)
    \/ \E r \in Reqs : FinalizeCommit(r)
    \/ \E r \in Reqs : StartRead(r)
    \/ \E r \in Reqs : StartCommit(r)
    \/ \E r \in Reqs : SubmitRequestRead(r)
    \/ \E r \in Reqs : SubmitRequestCommit(r)
    \/ Enqueue
    \/ JobLoad
    \/ JobGrade
    \/ JobGradeRaises
    \/ JobFinish

SpecAttempt == Init /\ [][ANext]_vars

\* The student's handlers of student.py alone: begin, submitAnswer, finalize.
StudentNext ==
    \/ \E r \in Reqs : BeginCheck(r)
    \/ \E r \in Reqs : BeginCreate(r)
    \/ \E r \in Reqs : SubmitAnswerRead(r)
    \/ \E r \in Reqs : SubmitAnswerCommit(r)
    \/ \E r \in Reqs : FinalizeRead(r)
    \/ \E r \in Reqs : FinalizeCommit(r)

SpecStudent == Init /\ [][StudentNext]_vars

\* The student's handlers and the grading job of the attempts they finalize.
StudentJobNext ==
    \/ StudentNext
    \/ Enqueue
    \/ JobLoad
    \/ JobGrade
    \/ JobGradeRaises
    \/ JobFinish

SpecStudentJob == Init /\ [][StudentJobNext]_vars

SpecLobby == Init /\ [][LNext]_vars

\* The lobby with every operation of the manager, complete_test included.
LobbyOpsNext ==
    \/ LNext
    \/ \E c \in ConnIds : CompleteTest(c)
    \/ \E c \in ConnIds : CompleteTestClose(c)

SpecLobbyOps == Init /\ [][LobbyOpsNext]_vars

\* The steps the event loop takes for connection c without a message of the
\* client: an operation that was begun goes on after its await, a coroutine
\* that waits for the lock gets it once it is free.
Continue(c) ==
    \/ ConnectTeacher(c)
    \/ ConnectStudentAdd(c)
    \/ ConnectStudentUpdate(c)
    \/ SetReadyUpdate(c)
    \/ DisconnectUpdate(c)
    \/ CloseLobbyLocked(c)
    \/ CloseLobbyFinish(c)
    \/ CompleteTestClose(c)

\* The clients' messages that are followed to their end.
MaxLiveCalls == 4

\* Step A of connection c, taken for one of the first MaxLiveCalls messages
\* of the clients, or without a message when the websocket is closed.
Limited(c, A) ==
    /\ conns[c].ws /= "closed" => lused < MaxLiveCalls
    /\ A

\* Every operation of the manager.
LobbyLiveNext ==
    \/ \E c \in ConnIds : Limited(c, ConnectTeacherArrive(c))
    \/ \E c \in ConnIds : ConnectTeacher(c)
    \/ \E c \in ConnIds : Limited(c, ConnectStudentCheck(c))
    \/ \E c \in ConnIds : ConnectStudentAdd(c)
    \/ \E c \in ConnIds : ConnectStudentUpdate(c)
    \/ \E c \in ConnIds : Limited(c, SetReady(c))
    \/ \E c \in ConnIds : SetReadyUpdate(c)
    \/ \E c \in ConnIds : Limited(c, Disconnect(c))
    \/ \E c \in ConnIds : DisconnectUpdate(c)
    \/ \E c \in ConnIds : Limited(c, StartTest(c))
    \/ \E c \in ConnIds : Limited(c, CloseLobby(c))
    \/ \E c \in ConnIds : CloseLobbyLocked(c)
    \/ \E c \in ConnIds : CloseLobbyFinish(c)
    \/ \E c \in ConnIds : Limited(c, TeacherDrop(c))
    \/ \E c \in ConnIds : Limited(c, CompleteTest(c))
    \/ \E c \in ConnIds : CompleteTestClose(c)

\* Every operation of the manager, run by an event loop that goes on
\* running each coroutine that can run.
SpecLobbyLive ==
    Init /\ [][LobbyLiveNext]_vars /\ \A c \in ConnIds : WF_vars(Continue(c))

\* The lobby while it waits, with the teacher's kick_student: connections,
\* departures, kicks and the closing of the lobby.
LobbyKickNext ==
    \/ \E c \in ConnIds : ConnectTeacherArrive(c)
    \/ \E c \in ConnIds : ConnectTeacher(c)
    \/ \E c \in ConnIds : ConnectStudentCheck(c)
    \/ \E c \in ConnIds : ConnectStudentAdd(c)
    \/ \E c \in ConnIds : ConnectStudentUpdate(c)
    \/ \E c \in ConnIds : Disconnect(c)
    \/ \E c \in ConnIds : DisconnectUpdate(c)
    \/ \E c \in ConnIds : CloseLobby(c)
    \/ \E c \in ConnIds : CloseLobbyLocked(c)
    \/ \E c \in ConnIds : CloseLobbyFinish(c)
    \/ \E c \in ConnIds : TeacherDrop(c)
    \/ \E c \in ConnIds : KickStudent(c)
    \/ \E c \in ConnIds : KickStudentUpdate(c)

SpecLobbyKick == Init /\ [][LobbyKickNext]_vars

\* The lobby while it waits, with clients that send malformed messages:
\* connections, readiness, departures and the handlers' except clauses.
LobbyErrNext ==
    \/ \E c \in ConnIds : ConnectTeacherArrive(c)
    \/ \E c \in ConnIds : ConnectTeacher(c)
    \/ \E c \in ConnIds : ConnectStudentCheck(c)
    \/ \E c \in ConnIds : ConnectStudentAdd(c)
    \/ \E c \in ConnIds : ConnectStudentUpdate(c)
    \/ \E c \in ConnIds : SetReady(c)
    \/ \E c \in ConnIds : SetReadyUpdate(c)
    \/ \E c \in ConnIds : Disconnect(c)
    \/ \E c \in ConnIds : DisconnectUpdate(c)
    \/ \E c \in ConnIds : TeacherDrop(c)
    \/ \E c \in ConnIds : StudentMalformed(c)
    \/ \E c \in ConnIds : TeacherMalformed(c)

SpecLobbyErr == Init /\ [][LobbyErrNext]_vars

\* The lobby with the data of its lobby_update messages recorded.
ViewInit == AInit /\ LStart(TRUE) /\ GIdle /\ PIdle

\* The lobby while it waits: teachers connect, students join, set their
\* readiness and leave.
LobbyViewNext ==
    \/ \E c \in ConnIds : ConnectTeacherArrive(c)
    \/ \E c \in ConnIds : ConnectTeacher(c)
    \/ \E c \in ConnIds : ConnectStudentCheck(c)
    \/ \E c \in ConnIds : ConnectStudentAdd(c)
    \/ \E c \in ConnIds : ConnectStudentUpdate(c)
    \/ \E c \in ConnIds : SetReady(c)
    \/ \E c \in ConnIds : SetReadyUpdate(c)
    \/ \E c \in ConnIds : Disconnect(c)
    \/ \E c \in ConnIds : DisconnectUpdate(c)

SpecLobbyView == ViewInit /\ [][LobbyViewNext]_vars

(***************************************************************************)
(* begin against every project: any status, any window, any set of         *)
(* generated questions, while time passes.                                 *)
(***************************************************************************)
\* The last instant a start_time or an end_time names.
MaxTime == 3

Times == 1..MaxTime

\* The values of Project.status that the code assigns or compares.
ProjectStatuses ==
    {"draft", "vectorizing", "generating", "ready", "active", "completed", "error"}

ProjectInputs ==
    [status : ProjectStatuses, vectorization_status : {"completed"},
     vector_store : {TRUE}, start_time : {None} \cup Times,
     end_time : {None} \cup Times, allowed : BOOLEAN, generations : {1}]

\* The questions a project holds: any part of the generated ones.
QuestionSets == {[q \in S |-> GeneratedQuestion(q)] : S \in SUBSET Questions}

BInit ==
    /\ AInit
    /\ LInit
    /\ GIdle
    /\ project \in ProjectInputs
    /\ qs \in QuestionSets
    /\ KIdle

\* Time passes: datetime.utcnow() grows between two requests.
Tick ==
    /\ clock <= MaxTime
    /\ clock' = clock + 1
    /\ UNCHANGED <<tests, answers, req, job, queue, used, began, last>>
    /\ UNCHANGED <<lvars, gvars, pvars>>

BeginNext ==
    \/ \E r \in Reqs : BeginCheck(r)
    \/ \E r \in Reqs : BeginCreate(r)
    \/ Tick

SpecBegin == BInit /\ [][BeginNext]_vars

(***************************************************************************)
(* The teacher's question operations (api/v1/endpoints/projects.py) and    *)
(* the generation task (tasks/test_tasks.py).                              *)
(***************************************************************************)
\* How many runs of generate_test_questions store questions, the first
\* generation included.
MaxGenerations == 2

\* The ids the questions of all generations take.
QuestionIds == 1..(3 * MaxGenerations)

\* The points and the correct answer a teacher sends in an update.
PointsInputs == {5}

CorrectAnswerInputs == {IntV(1)}

\* An answer row that was deleted: its id is not used again.
DeletedAnswer ==
    [test |-> 0, question |-> 0, answer |-> NullV, is_correct |-> "null", score |-> None,
     feedback |-> "null", grading_status |-> "null", graded_by |-> "null"]

\* ForeignKey("questions.id", ondelete="CASCADE"): the answers of the
\* questions in gone are deleted with them.
CascadeAnswers(gone) ==
    [i \in DOMAIN answers |->
        IF answers[i].question \in gone THEN DeletedAnswer ELSE answers[i]]

\* PUT /projects/{project_id}/questions/{question_id}: the keys present in
\* the body are written to the question.
UpdateQuestion(q) ==
    /\ q \in DOMAIN qs
    /\ used < MaxCalls
    /\ used' = used + 1
    /\ \E pts \in PointsInputs \cup {qs[q].points},
          ca \in CorrectAnswerInputs \cup {qs[q].correct_answer} :
          qs' = [qs EXCEPT ![q].points = pts, ![q].correct_answer = ca]
    /\ Return("update_question", "ok", 0, NoRow)
    /\ UNCHANGED <<tests, answers, req, job, queue, clock, began, project>>
    /\ UNCHANGED <<lvars, gvars, kvars>>

\* DELETE /projects/{project_id}/questions/{question_id}
DeleteQuestion(q) ==
    /\ q \in DOMAIN qs
    /\ used < MaxCalls
    /\ used' = used + 1
    /\ qs' = [x \in DOMAIN qs \ {q} |-> qs[x]]
    /\ answers' = CascadeAnswers({q})
    /\ Return("delete_question", "ok", 0, NoRow)
    /\ UNCHANGED <<tests, req, job, queue, clock, began, project>>
    /\ UNCHANGED <<lvars, gvars, kvars>>

\* The ids under which the next run of the generation stores its questions.
FreshQuestions == {3 * project.generations + k : k \in 1..3}

\* generate_test_questions, lines 118-153: every question of the project is
\* deleted, the generated ones are inserted, the project becomes "ready".
StoreQuestions ==
    /\ qs' = [q \in FreshQuestions |-> GeneratedQuestion(q)]
    /\ answers' = CascadeAnswers(DOMAIN qs)
    /\ project' = [project EXCEPT !.status = "ready", !.generations = @ + 1]

\* A run of generate_test_questions that stores its questions.
GenerateQuestions ==
    /\ project.generations < MaxGenerations
    /\ used < MaxCalls
    /\ used' = used + 1
    /\ StoreQuestions
    /\ Return("generate_test_questions", "ok", 0, NoRow)
    /\ UNCHANGED <<tests, req, job, queue, clock, began>>
    /\ UNCHANGED <<lvars, gvars, kvars>>

QuestionsNext ==
    \/ \E r \in Reqs : BeginCheck(r)
    \/ \E r \in Reqs : BeginCreate(r)
    \/ \E r \in Reqs : SubmitAnswerRead(r)
    \/ \E r \in Reqs : SubmitAnswerCommit(r)
    \/ \E q \in QuestionIds : UpdateQuestion(q)
    \/ \E q \in QuestionIds : DeleteQuestion(q)
    \/ GenerateQuestions

SpecQuestions == Init /\ [][QuestionsNext]_vars

(***************************************************************************)
(* The background jobs of a project: the vectorization of its materials    *)
(* (projects.py start_vectorization, document_tasks.py) and the generation *)
(* of its questions (projects.py generate_tests, test_tasks.py).           *)
(*                                                                         *)
(* A task record holds the kind of the job, the state of its run (pending: *)
(* dispatched and not started, processing, done), the index of the next    *)
(* material, the result it returned, and, as a record of the run, the      *)
(* materials whose processing raised (failed) or succeeded (succeeded).    *)
(***************************************************************************)
\* How many tasks are dispatched in all.
MaxJobs == 3

JobKinds == {"vectorize", "generate"}

NewTask(kind) ==
    [kind |-> kind, state |-> "pending", idx |-> 1, result |-> "none",
     failed |-> {}, succeeded |-> {}]

\* A project that was just created, with its materials linked.
DraftProject ==
    [status |-> "draft", vectorization_status |-> "pending", vector_store |-> FALSE,
     start_time |-> None, end_time |-> None, allowed |-> TRUE, generations |-> 0]

KInit ==
    /\ AInit
    /\ LInit
    /\ GIdle
    /\ project = DraftProject
    /\ qs = [q \in {} |-> GeneratedQuestion(q)]
    /\ materials = [m \in Materials |-> 0]
    /\ tasks = <<>>
    /\ enq = [e \in EnqSlots |-> "idle"]

\* The answer of an enqueue request.
Answer(op, outcome) == Return(op, outcome, 0, NoRow)

\* start_vectorization, lines 306-331: the project is loaded and its
\* vectorization_status is looked at.
StartVectorizationRead(e) ==
    /\ enq[e] = "idle"
    /\ IF project.vectorization_status = "processing"
       THEN \* 400 "Vectorization already in progress"
            /\ Answer("start_vectorization", "already_running")
            /\ UNCHANGED enq
       ELSE /\ Len(tasks) < MaxJobs
            /\ enq' = [enq EXCEPT ![e] = "commit"]
            /\ UNCHANGED last
    /\ UNCHANGED <<project, qs, materials, tasks>>
    /\ UNCHANGED <<tests, answers, req, job, queue, clock, used, began>>
    /\ UNCHANGED <<lvars, gvars>>

\* start_vectorization, lines 333-349: the status is committed and the task
\* is dispatched.
StartVectorizationCommit(e) ==
    /\ enq[e] = "commit"
    /\ enq' = [enq EXCEPT ![e] = "idle"]
    /\ project' = [project EXCEPT !.vectorization_status = "processing",
                                  !.status = "vectorizing"]
    /\ tasks' = Append(tasks, NewTask("vectorize"))
    /\ Answer("start_vectorization", "processing")
    /\ UNCHANGED <<qs, materials>>
    /\ UNCHANGED <<tests, answers, req, job, queue, clock, used, began>>
    /\ UNCHANGED <<lvars, gvars>>

\* generate_tests, lines 480-537: the task is dispatched and the project
\* becomes "generating".
GenerateTests ==
    /\ Len(tasks) < MaxJobs
    /\ tasks' = Append(tasks, NewTask("generate"))
    /\ project' = [project EXCEPT !.status = "generating"]
    /\ Answer("generate_tests", "processing")
    /\ UNCHANGED <<qs, materials, enq>>
    /\ UNCHANGED <<tests, answers, req, job, queue, clock, used, began>>
    /\ UNCHANGED <<lvars, gvars>>

\* A worker takes the task j from its queue.
TaskStart(j) ==
    /\ j \in DOMAIN tasks
    /\ tasks[j].state = "pending"
    /\ tasks' = [tasks EXCEPT ![j].state = "processing"]
    /\ UNCHANGED <<project, qs, materials, enq>>
    /\ UNCHANGED avars
    /\ UNCHANGED <<lvars, gvars>>

\* vectorize_project_materials, lines 44-67: the vector store of the project
\* is created when it has none.
VectorizeStore(j) ==
    /\ j \in DOMAIN tasks
    /\ tasks[j].kind = "vectorize"
    /\ tasks[j].state = "processing"
    /\ ~project.vector_store
    /\ tasks[j].idx = 1
    /\ project' = [project EXCEPT !.vector_store = TRUE]
    /\ UNCHANGED <<qs, materials, tasks, enq>>
    /\ UNCHANGED avars
    /\ UNCHANGED <<lvars, gvars>>

\* Lines 69-157: the next material is processed; it is marked done, or, when
\* the file is missing or a call raises, marked error, and the loop goes on.
VectorizeItem(j) ==
    /\ j \in DOMAIN tasks
    /\ tasks[j].kind = "vectorize"
    /\ tasks[j].state = "processing"
    /\ project.vector_store
    /\ tasks[j].idx \in Materials
    /\ LET m == tasks[j].idx IN
       \/ /\ materials' = [materials EXCEPT ![m] = 2]
          /\ tasks' = [tasks EXCEPT ![j].idx = m + 1,
                                    ![j].succeeded = @ \cup {m}]
       \/ /\ materials' = [materials EXCEPT ![m] = -1]
          /\ tasks' = [tasks EXCEPT ![j].idx = m + 1,
                                    ![j].failed = @ \cup {m}]
    /\ UNCHANGED <<project, qs, enq>>
    /\ UNCHANGED avars
    /\ UNCHANGED <<lvars, gvars>>

\* Lines 159-192: the rows of the project with is_vectorized = -1 are
\* counted and the status of the vectorization is stored.
VectorizeFinish(j) ==
    /\ j \in DOMAIN tasks
    /\ tasks[j].kind = "vectorize"
    /\ tasks[j].state = "processing"
    /\ project.vector_store
    /\ tasks[j].idx = MaxMaterials + 1
    /\ LET failed_count == Cardinality({m \in Materials : materials[m] = -1}) IN
       IF failed_count > 0
       THEN /\ project' = [project EXCEPT !.vectorization_status = "partial",
                                          !.status = "error"]
            /\ tasks' = [tasks EXCEPT ![j].state = "done", ![j].result = "partial"]
       ELSE /\ project' = [project EXCEPT !.vectorization_status = "completed",
                                          !.status = "ready"]
            /\ tasks' = [tasks EXCEPT ![j].state = "done", ![j].result = "success"]
    /\ UNCHANGED <<qs, materials, enq>>
    /\ UNCHANGED avars
    /\ UNCHANGED <<lvars, gvars>>

\* Lines 194-205: the creation of the vector store raises; the project is
\* marked failed and the task fails.
VectorizeRaises(j) ==
    /\ j \in DOMAIN tasks
    /\ tasks[j].kind = "vectorize"
    /\ tasks[j].state = "processing"
    /\ ~project.vector_store
    /\ project' = [project EXCEPT !.vectorization_status = "failed", !.status = "draft"]
    /\ tasks' = [tasks EXCEPT ![j].state = "done", ![j].result = "failed"]
    /\ UNCHANGED <<qs, materials, enq>>
    /\ UNCHANGED avars
    /\ UNCHANGED <<lvars, gvars>>

\* generate_test_questions, lines 40-160: the questions are generated and
\* stored.
GenerationStore(j) ==
    /\ j \in DOMAIN tasks
    /\ tasks[j].kind = "generate"
    /\ tasks[j].state = "processing"
    /\ project.vector_store
    /\ project.generations < MaxGenerations
    /\ StoreQuestions
    /\ tasks' = [tasks EXCEPT ![j].state = "done", ![j].result = "success"]
    /\ UNCHANGED <<materials, enq>>
    /\ UNCHANGED <<tests, req, job, queue, clock, used, began, last>>
    /\ UNCHANGED <<lvars, gvars>>

\* generate_test_questions, lines 72-73, 110-111, 162-167: the project has no
\* vector store, or no question was generated, or the generator raises.
GenerationRaises(j) ==
    /\ j \in DOMAIN tasks
    /\ tasks[j].kind = "generate"
    /\ tasks[j].state = "processing"
    /\ tasks' = [tasks EXCEPT ![j].state = "done", ![j].result = "failed"]
    /\ UNCHANGED <<project, qs, materials, enq>>
    /\ UNCHANGED avars
    /\ UNCHANGED <<lvars, gvars>>

TaskIds == 1..MaxJobs

PipelineNext ==
    \/ \E e \in EnqSlots : StartVectorizationRead(e)
    \/ \E e \in EnqSlots : StartVectorizationCommit(e)
    \/ GenerateTests
    \/ \E j \in TaskIds : TaskStart(j)
    \/ \E j \in TaskIds : VectorizeStore(j)
    \/ \E j \in TaskIds : VectorizeItem(j)
    \/ \E j \in TaskIds : VectorizeFinish(j)
    \/ \E j \in TaskIds : VectorizeRaises(j)
    \/ \E j \in TaskIds : GenerationStore(j)
    \/ \E j \in TaskIds : GenerationRaises(j)

SpecPipeline == KInit /\ [][PipelineNext]_vars

(***************************************************************************)
(* The grading job with its time limit, and a worker that goes on running  *)
(* the task it took.                                                       *)
(***************************************************************************)
\* celery_app.py task_time_limit=600: the process that runs the task is
\* killed; what it committed stays, the task is not run again.
JobKilled ==
    /\ UNCHANGED <<lvars, gvars, pvars>>
    /\ job.pc = "grade"
    /\ job' = JobIdle
    /\ Return("job", "time_limit", job.t, NoRow)
    /\ UNCHANGED <<tests, answers, req, queue, clock, used, began>>

\* The steps of the worker.
JobStep == JobLoad \/ JobGrade \/ JobGradeRaises \/ JobFinish \/ JobKilled

GradingNext ==
    \/ \E r \in Reqs : BeginCheck(r)
    \/ \E r \in Reqs : BeginCreate(r)
    \/ \E r \in Reqs : SubmitAnswerRead(r)
    \/ \E r \in Reqs : SubmitAnswerCommit(r)
    \/ Enqueue
    \/ JobLoad
    \/ JobGrade
    \/ JobGradeRaises
    \/ JobFinish
    \/ JobKilled

\* The worker takes a task that is queued and runs the task it took until
\* the task returns or is killed.
SpecGrading == Init /\ [][GradingNext]_vars /\ WF_vars(JobStep)

(***************************************************************************)
(* The grading code on one answer: the loop body of submit_test in         *)
(* student.py (lines 794-865) and the loop body of submit_test in tests.py *)
(* (lines 371-446), on questions and answers drawn from the JSON values    *)
(* below.                                                                  *)
(***************************************************************************)
\* Question.points runs over 1..MaxPoints.
MaxPoints == 2

QuestionTypes ==
    {"single-choice", "multiple-choice", "true-false", "short-answer", "essay", "matching"}

Strings == {"", "0", "1", "2", "b", "true", "True", "YES", "false", "text", "my text"}

\* A pair of a matching question.
Pair == DictV("pair")

Lists ==
    {<<>>, <<IntV(0)>>, <<IntV(0), IntV(1)>>, <<IntV(1), IntV(0)>>,
     <<StrV("0"), StrV("1")>>, <<IntV(0), IntV(0), IntV(1)>>, <<Pair>>}

Values ==
    {NullV, BoolV(TRUE), BoolV(FALSE), Pair}
    \cup {IntV(n) : n \in 0..2}
    \cup {StrV(x) : x \in Strings}
    \cup {ListV(x) : x \in Lists}

Keywords == {<<>>, <<"text">>}

QuestionInputs ==
    [question_type : QuestionTypes, correct_answer : Values, points : 1..MaxPoints,
     expected_keywords : Keywords, matching_pairs : {<<>>, <<Pair>>}]

\* The characters of a string of the model.
Chars(x) ==
    CASE x = "" -> {}
      [] x = "0" -> {"0"}
      [] x = "1" -> {"1"}
      [] x = "2" -> {"2"}
      [] x = "b" -> {"b"}
      [] x = "true" -> {"t", "r", "u", "e"}
      [] x = "True" -> {"T", "r", "u", "e"}
      [] x = "YES" -> {"Y", "E", "S"}
      [] x = "false" -> {"f", "a", "l", "s", "e"}
      [] x = "text" -> {"t", "e", "x"}
      [] x = "my text" -> {"m", "y", " ", "t", "e", "x"}

\* kw in x, for a keyword kw and the lowered str() x of a value of the model.
Contains(x, kw) ==
    IF kw = "text" THEN x \in {"text", "my text"} ELSE x = kw

\* a == b of Python on JSON values: True and False are the integers 1 and 0.
PyEq(a, b) ==
    IF a.t \in {"int", "bool"} /\ b.t \in {"int", "bool"}
    THEN AsInt(a) = AsInt(b)
    ELSE a.t = b.t /\ a.v = b.v

\* bool(x) is False.
Falsy(x) ==
    \/ x.t = "null"
    \/ x.t = "bool" /\ ~x.v
    \/ x.t = "int" /\ x.v = 0
    \/ x.t = "str" /\ x.v = ""
    \/ x.t = "list" /\ Len(x.v) = 0

\* x or []
OrEmpty(x) == IF Falsy(x) THEN ListV(<<>>) ELSE x

\* set(x) raises TypeError: x is not iterable, or holds an unhashable dict.
SetRaises(x) ==
    \/ x.t \in {"int", "bool"}
    \/ x.t = "list" /\ \E i \in 1..Len(x.v) : x.v[i].t = "dict"

\* set(x) of a list, a string (its characters) or a dict (its keys).
PySet(x) ==
    IF x.t = "list" THEN {x.v[i] : i \in 1..Len(x.v)}
    ELSE IF x.t = "str" THEN {StrV(c) : c \in Chars(x.v)}
    ELSE {StrV("left"), StrV("right")}

\* cp in x raises TypeError, for a dict cp.
InRaises(x) == x.t \in {"int", "bool", "str", "dict"}

\* How many elements of the sequence s satisfy P.
RECURSIVE CountIn(_, _)
CountIn(s, P) ==
    IF Len(s) = 0 THEN 0
    ELSE (IF s[1] \in P THEN 1 ELSE 0) + CountIn(Tail(s), P)

\* What the code of lines 381-420 has in is_correct and score when it leaves
\* the if-chain, or that it raised on the way (the locals keep lines 376-377).
SubmitGrade(q, answer) ==
    LET points == q.points
        raised == [raises |-> "TypeError", is_correct |-> FALSE, score |-> Frac(0, 1)]
        done(is_correct, score) ==
            [raises |-> "none", is_correct |-> is_correct, score |-> score]
    IN
    IF q.question_type \in {"single-choice", "true-false"}
    THEN LET is_correct == PyEq(answer, q.correct_answer)
         IN done(is_correct, Frac(IF is_correct THEN points ELSE 0, 1))
    ELSE IF q.question_type = "multiple-choice"
    THEN LET c == OrEmpty(q.correct_answer)
             a == OrEmpty(answer)
         IN IF SetRaises(c) \/ SetRaises(a) THEN raised
            ELSE LET correct_set == PySet(c)
                     answer_set == PySet(a)
                     both == answer_set \cap correct_set
                 IN IF correct_set = answer_set THEN done(TRUE, Frac(points, 1))
                    ELSE IF both /= {}
                    THEN done(FALSE, Frac(points * Cardinality(both),
                                          Cardinality(correct_set)))
                    ELSE done(FALSE, Frac(0, 1))
    ELSE IF q.question_type = "short-answer"
    THEN LET answer_lower == Lower(PyStr(answer))
             keywords == q.expected_keywords
             matched == CountIn(keywords, {kw \in {"text"} : Contains(answer_lower, Lower(kw))})
         IN done(matched = Len(keywords),
                 IF Len(keywords) > 0 THEN Frac(points * matched, Len(keywords))
                 ELSE Frac(0, 1))
    ELSE IF q.question_type = "matching"
    THEN LET correct_pairs == q.matching_pairs
             answer_pairs == OrEmpty(answer)
         IN IF Len(correct_pairs) > 0 /\ InRaises(answer_pairs) THEN raised
            ELSE LET matched == CountIn(correct_pairs,
                                        {cp \in {Pair} : \E i \in 1..Len(answer_pairs.v) :
                                                            PyEq(cp, answer_pairs.v[i])})
                 IN done(matched = Len(correct_pairs),
                         IF Len(correct_pairs) > 0
                         THEN Frac(points * matched, Len(correct_pairs))
                         ELSE Frac(0, 1))
    ELSE done(FALSE, Frac(0, 1))

GInit ==
    /\ AInit
    /\ LInit
    /\ PIdle
    /\ gq \in QuestionInputs
    /\ ga \in Values
    /\ gout = NoGrade

\* student.py lines 794-865: the answer gets is_correct and score.
GradeFinalize ==
    /\ gq.question_type /= "none"
    /\ LET g == Grade(gq.question_type, gq.correct_answer, gq.points, ga)
       IN gout' = [path |-> "finalize", raises |-> "none",
                   is_correct |-> g.is_correct, score |-> Frac(g.score, 1)]
    /\ UNCHANGED <<gq, ga, avars, lvars, pvars>>

\* tests.py lines 371-446: is_correct and score are computed; then
\* Answer(..., grading_status=..., graded_by=...) at line 436 raises TypeError,
\* the Answer model having no such attributes.
GradeSubmit ==
    /\ gq.question_type /= "none"
    /\ LET g == SubmitGrade(gq, ga)
       IN gout' = [path |-> "submit", raises |-> "TypeError",
                   is_correct |-> IF g.is_correct THEN "true" ELSE "false",
                   score |-> g.score]
    /\ UNCHANGED <<gq, ga, avars, lvars, pvars>>

GNext ==
    \/ GradeFinalize
    \/ GradeSubmit

SpecGrade == GInit /\ [][GNext]_vars

(***************************************************************************)
(* Properties.                                                             *)
(***************************************************************************)
Finalized == {"completed", "graded"}

\* The step is a call of begin by the request of slot r.
BeginCalled(r) ==
    /\ req[r].op = "idle"
    /\ used' = used + 1
    /\ queue' = queue
    /\ \/ req'[r].op = "begin"
       \/ req' = req /\ last'.op = "begin"

\* The sum of the scores of the answer rows of attempt t in the table ans.
AnswerSum(ans, t) ==
    SumOver({i \in DOMAIN ans : ans[i].test = t},
            [i \in DOMAIN ans |-> ScoreOrZero(ans[i].score)])

\* C1: under any interleaving of begin calls for one (project, student) pair
\* there are never two attempts with status pending or in-progress, and every
\* caller observes the same attempt id and the same variantNumber.
C1_OneAttemptPerPair ==
    /\ Cardinality({t \in TestIds : tests[t].status \in {"pending", "in-progress"}}) <= 1
    /\ \A x, y \in began : x = y

\* C2: the number of students in a lobby never exceeds its capacity.
C2_WithinCapacity ==
    \A L \in DOMAIN lobbies : StudentCount(lobbies[L]) <= lobbies[L].max_students

\* C3: a finalize call on an attempt whose status is completed or graded is
\* rejected (it never goes on to grade), and a finalize that commits on an
\* attempt it loaded as completed or graded changes no row.
C3_RefinalizeRejected ==
    [][\A r \in Reqs :
          /\ (req[r].op = "idle" /\ req'[r].op \in {"finalize", "submit_request"})
                => tests[req'[r].t].status \notin Finalized
          /\ (req[r].op \in {"finalize", "submit_request"} /\ req'[r].op = "idle"
                /\ req[r].snapT.status \in Finalized)
                => (tests' = tests /\ answers' = answers)]_vars

\* C4: when a grading job finishes for an attempt that has open-ended
\* answers and was completed when the job loaded it, the attempt's status is
\* graded and its score is the sum of the scores of all its answers.
C4_JobFinishGrades ==
    [][(job.pc = "grade" /\ job'.pc = "idle" /\ job.snapT.status = "completed")
            => /\ tests'[job.t].status = "graded"
               /\ tests'[job.t].score = AnswerSum(answers', job.t)]_vars

\* A new student connection c runs the checks of connect_student in this
\* step, on a lobby that has been started.
JoinsStarted(c) ==
    /\ conns[c].role = "none"
    /\ conns'[c].role = "student"
    /\ registry /= 0
    /\ lobbies[registry].status /= "waiting"

\* C5, as the code has it: when start_test sets a waiting lobby active,
\* test_started is sent to every student connection of the lobby and received
\* on every open one; a connect_student that finds the started lobby is
\* rejected, with "Lobby is full" when the lobby holds max_students students
\* and with "Test already started" (LobbyClosed) otherwise, its websocket
\* is closed and the lobby is left as it was.
C5_StartThenReject ==
    [][/\ \A L \in DOMAIN lobbies :
             (lobbies[L].status = "waiting" /\ lobbies'[L].status = "active")
                => /\ sent'.type = "test_started"
                   /\ \A u \in DOMAIN lobbies[L].student_connections :
                         LET c == lobbies[L].student_connections[u]
                         IN conns[c].ws = "open"
                               => c \in sent'.to /\ "test_started" \in conns'[c].got
       /\ \A c \in ConnIds :
             JoinsStarted(c)
                => /\ sent' = [type |-> IF Cardinality(DOMAIN lobbies[registry].students)
                                             >= lobbies[registry].max_students
                                        THEN "error_full" ELSE "error_closed",
                               to |-> {c}]
                   /\ conns'[c].pc = "done"
                   /\ conns'[c].ws = "closed"
                   /\ lobbies' = lobbies]_vars

\* C5 as stated: every connect_student that arrives after the start is
\* rejected with LobbyClosed ("Test already started").
C5_LateJoinLobbyClosed ==
    [][\A c \in ConnIds : JoinsStarted(c) => sent'.type = "error_closed"]_vars

\* The lobby holds max_students students (two, with Capacity 2), it was
\* started and all of them received test_started, and one more join was just
\* rejected by the started lobby.
C5_Witness ==
    /\ registry /= 0
    /\ lobbies[registry].status = "active"
    /\ Cardinality(DOMAIN lobbies[registry].students) = lobbies[registry].max_students
    /\ \A u \in DOMAIN lobbies[registry].student_connections :
          "test_started" \in conns[lobbies[registry].student_connections[u]].got
    /\ sent.type = "error_full"
    /\ \E c \in sent.to : conns[c].pc = "done" /\ conns[c].got = {"error_full"}

\* C6: when finalize commits on an attempt that has an open-ended answer, a
\* grading job for the attempt is in the queue.
C6_FinalizeEnqueues ==
    [][\A r \in Reqs :
          (req[r].op \in {"finalize", "submit_request"} /\ req'[r].op = "idle"
             /\ last'.outcome = "ok" /\ WrittenRows(req[r].t) /= {})
             => req[r].t \in queue']_vars

\* C7: when the grading job finishes on an attempt that finalize has
\* completed, and no finalize is running on the attempt, the status is
\* graded, the score is the sum of the scores of the answers, and every answer
\* the oracle gave a positive score still has it.
C7_NoLostUpdate ==
    [][(/\ job.pc = "grade" /\ job'.pc = "idle"
        /\ tests[job.t].status \in Finalized
        /\ \A r \in Reqs : ~(req[r].op \in {"finalize", "submit_request"}
                               /\ req[r].t = job.t))
          => /\ tests'[job.t].status = "graded"
             /\ tests'[job.t].score = AnswerSum(answers', job.t)
             /\ \A i \in DOMAIN job.snapA :
                   (QType(job.snapA[i].question) \in WrittenTypes
                      /\ job.snapA[i].score > 0)
                      => answers'[i].score = job.snapA[i].score]_vars

\* The place of a status in pending, in-progress, completed, graded.
Rank(status) ==
    CASE status = "pending" -> 0
      [] status = "in-progress" -> 1
      [] status = "completed" -> 2
      [] status = "graded" -> 3

\* C8: no step moves the status of an attempt backwards.
C8_StatusForward ==
    [][\A t \in DOMAIN tests : Rank(tests'[t].status) >= Rank(tests[t].status)]_vars

\* C9: a begin call for a pair whose one attempt is completed or graded is
\* answered "already completed" and creates no attempt.
C9_BeginAfterFinalized ==
    [][\A r \in Reqs :
          (BeginCalled(r) /\ Len(tests) = 1 /\ tests[1].status \in Finalized)
             => /\ last'.op = "begin"
                /\ last'.outcome = "already_completed"
                /\ req'[r] = Idle
                /\ tests' = tests]_vars

\* C10: a begin call for a pair whose one attempt is in-progress returns that
\* attempt with the id, variant_number, started_at and max_score it has, and
\* changes no attempt and no answer; this holds for every such call of a run.
C10_BeginReturnsExisting ==
    [][\A r \in Reqs :
          (BeginCalled(r) /\ Len(tests) = 1 /\ tests[1].status = "in-progress")
             => /\ last' = [op |-> "begin", outcome |-> "existing", t |-> 1,
                            ret |-> tests[1]]
                /\ req'[r] = Idle
                /\ tests' = tests
                /\ answers' = answers]_vars

\* A begin call has returned the one in-progress attempt of the pair, which
\* already has an answer.
C10_Witness ==
    /\ last.op = "begin"
    /\ last.outcome = "existing"
    /\ Len(tests) = 1
    /\ last.ret = tests[1]
    /\ AnswersOf(1) /= {}

Objective == {"single-choice", "multiple-choice", "true-false"}

\* The grading code has run on the answer and left is_correct and score.
Graded(is_correct, score) ==
    /\ gout.is_correct = (IF is_correct THEN "true" ELSE "false")
    /\ gout.score.n = score * gout.score.d

\* C11: on the finalize path a null answer to an objective question, whatever
\* the question's correct answer, is graded incorrect with score 0 and the
\* grading does not raise.
C11_NullAnswerIncorrect ==
    (gout.path = "finalize" /\ ga = NullV /\ gq.question_type \in Objective)
       => (gout.raises = "none" /\ Graded(FALSE, 0))

\* A value that looks like a number: a JSON integer or a string of digits.
NumLooking(x) == x.t = "int" \/ (x.t = "str" /\ x.v \in DigitStrings)

NumOf(x) == IF x.t = "int" THEN x.v ELSE StrToInt(x.v)

\* Equality after the normalisation C12 describes.
SingleChoiceEqual(correct, answer) ==
    IF NumLooking(correct) /\ NumLooking(answer)
    THEN NumOf(answer) = NumOf(correct)
    ELSE PyStr(answer) = PyStr(correct)

\* C12: on every path the grading of an answer to a single-choice question
\* gives is_correct true and score points when answer and correct answer are
\* equal after normalisation, and is_correct false and score 0 otherwise.
C12_SingleChoice ==
    (gout.path /= "none" /\ gq.question_type = "single-choice")
       => IF SingleChoiceEqual(gq.correct_answer, ga)
          THEN Graded(TRUE, gq.points)
          ELSE Graded(FALSE, 0)

\* The set of the indices a multiple-choice value selects: the elements of a
\* list, each in its string form; a value that is no list selects nothing.
IndexSet(x) == IF x.t = "list" THEN {PyStr(x.v[i]) : i \in 1..Len(x.v)} ELSE {}

\* C13: on every path the score of an answer to a multiple-choice question is
\* points when its index set equals the correct index set, and 0 otherwise.
C13_MultipleChoiceExact ==
    (gout.path /= "none" /\ gq.question_type = "multiple-choice")
       => gout.score.n = (IF IndexSet(ga) = IndexSet(gq.correct_answer)
                          THEN gq.points ELSE 0) * gout.score.d

\* The boolean of a true-false value: true exactly for the tokens "true", "1"
\* and "yes", whatever their case.
TokenBool(x) == Lower(PyStr(x)) \in {"true", "1", "yes"}

\* C14: on every path an answer to a true-false question is graded correct,
\* with score points, when its boolean equals the boolean of the correct
\* answer, and incorrect with score 0 otherwise.
C14_TrueFalseTokens ==
    (gout.path /= "none" /\ gq.question_type = "true-false")
       => IF TokenBool(ga) = TokenBool(gq.correct_answer)
          THEN Graded(TRUE, gq.points)
          ELSE Graded(FALSE, 0)

\* C15: at finalize an answer to an essay, short-answer or matching question
\* gets score 0 and is_correct null.
C15_WrittenPending ==
    (gout.path = "finalize" /\ gq.question_type \in WrittenTypes)
       => (gout.score.n = 0 /\ gout.is_correct = "null")

\* The points of the answers of attempt t, in the table ans, that answer a
\* question of variant v correctly.
CorrectPoints(ans, t, v) ==
    SumOver({i \in DOMAIN ans : /\ ans[i].test = t
                                /\ QVariant(ans[i].question) = v
                                /\ QType(ans[i].question) \in Objective
                                /\ GradeAnswer(ans[i].question, ans[i].answer).is_correct = "true"},
            [i \in DOMAIN ans |-> QPoints(ans[i].question)])

\* C16: when a finalize commits, the attempt's status is completed, its
\* max_score is the sum of the points of the questions of its variant, and its
\* score is the sum of the points of its correct answers to objective
\* questions of its variant.
C16_FinalizeTotals ==
    [][\A r \in Reqs :
          (req[r].op \in {"finalize", "submit_request"} /\ req'[r].op = "idle"
             /\ last'.outcome = "ok")
             => LET t == req[r].t
                IN /\ tests'[t].status = "completed"
                   /\ tests'[t].max_score = VariantMaxScore(tests'[t].variant_number)
                   /\ tests'[t].score = CorrectPoints(answers', t, tests'[t].variant_number)]_vars

\* The place of a lobby status on the way waiting -> active -> completed.
LobbyRank(status) ==
    CASE status = "waiting" -> 0
      [] status = "active" -> 1
      [] status = "completed" -> 2

\* C17: the status of a lobby only moves forward along waiting -> active ->
\* completed: no step of connect, ready, leave, start_test or complete_test
\* takes the status of a lobby back to an earlier value.
C17_LobbyStatusForward ==
    [][\A L \in DOMAIN lobbies :
          LobbyRank(lobbies'[L].status) >= LobbyRank(lobbies[L].status)]_vars

\* C18: start_test on a lobby whose status is not waiting broadcasts nothing:
\* while the lobby of the project is not waiting, no step sends test_started,
\* so a lobby broadcasts test_started at most once.
C18_StartOnlyWaiting ==
    [][(registry /= 0 /\ lobbies[registry].status /= "waiting")
          => sent'.type /= "test_started"]_vars

\* close_lobby has completed on lobby L: the lobby was popped from the
\* registry and no close_lobby is between its pop and its last close.
Closed(L) ==
    /\ L \in DOMAIN lobbies
    /\ L /= registry
    /\ \A c \in ConnIds : ~(conns[c].pc = "closing" /\ conns[c].lobby = L)

\* C19: after close_lobby completed, every student connection attached to
\* the closed lobby has received lobby_closed and is closed, also when a
\* connect_student was in flight during the close: no student is attached to
\* the closed lobby with an open websocket.
C19_ClosedLobbyEmpty ==
    \A L \in DOMAIN lobbies :
        Closed(L) =>
            \A u \in DOMAIN lobbies[L].student_connections :
                LET c == lobbies[L].student_connections[u]
                IN conns[c].ws = "closed" /\ "lobby_closed" \in conns[c].got

\* Connection c is opened by a connect_student that one of the three checks
\* turns down: there is no lobby, or the lobby is full, or it is not waiting.
JoinTurnedDown(c) ==
    /\ conns[c].role = "none"
    /\ conns'[c].role = "student"
    /\ \/ registry = 0
       \/ Cardinality(DOMAIN lobbies[registry].students)
              >= lobbies[registry].max_students
       \/ lobbies[registry].status /= "waiting"

\* The error of a join that is turned down.
JoinError ==
    IF registry = 0 THEN "error_not_found"
    ELSE IF Cardinality(DOMAIN lobbies[registry].students)
               >= lobbies[registry].max_students THEN "error_full"
    ELSE "error_closed"

\* C20: a rejected connect_student (no lobby: "Lobby not found"; the lobby
\* holds max_students students: "Lobby is full"; the status is not waiting:
\* "Test already started") sends exactly one error frame, to the joining
\* connection only, and closes that connection; it creates no lobby, adds no
\* student to a lobby, and sends nothing to the other connections.
C20_RejectedJoin ==
    [][\A c \in ConnIds :
          JoinTurnedDown(c)
             => /\ sent' = [type |-> JoinError, to |-> {c}]
                /\ conns'[c].got = {JoinError}
                /\ conns'[c].ws = "closed"
                /\ conns'[c].pc = "done"
                /\ \A x \in ConnIds \ {c} : conns'[x] = conns[x]
                /\ lobbies' = lobbies
                /\ registry' = registry]_vars

\* A join was just rejected with "Test already started" by a lobby that is
\* not full while its teacher and a joined student are connected: the
\* joiner holds the error frame and is closed, the others received no error.
C20_Witness ==
    /\ registry /= 0
    /\ lobbies[registry].status /= "waiting"
    /\ ~IsFull(lobbies[registry])
    /\ sent.type = "error_closed"
    /\ \E c \in sent.to :
          /\ conns[c].role = "student"
          /\ conns[c].ws = "closed"
          /\ conns[c].got = {"error_closed"}
          /\ conns[c].user \notin DOMAIN lobbies[registry].students
    /\ lobbies[registry].teacher_connection /= 0
    /\ conns[lobbies[registry].teacher_connection].ws = "open"
    /\ \E u \in DOMAIN lobbies[registry].student_connections :
          LET x == lobbies[registry].student_connections[u]
          IN conns[x].ws = "open" /\ conns[x].pc = "loop"
                /\ "error_closed" \notin conns[x].got

\* The step removes student u from lobby L.
Removed(L, u) ==
    /\ u \in DOMAIN lobbies[L].students
    /\ u \notin DOMAIN lobbies'[L].students

\* The step is a disconnect_student by the handler of student connection c
\* for a user that is not in the lobby of the project, or without a lobby.
LeavesAbsent(c) ==
    /\ conns[c].role = "student"
    /\ conns[c].pc = "loop"
    /\ conns'[c].pc /= "loop"
    /\ \/ registry = 0
       \/ conns[c].user \notin DOMAIN lobbies[registry].students

\* The step is a message of a client that starts no test and after which
\* every handler is where it was: a kick_student of the teacher for a user
\* that is not in the lobby.
KicksAbsent ==
    /\ lused' = lused + 1
    /\ sent'.type /= "test_started"
    /\ \A x \in ConnIds : conns'[x].pc = conns[x].pc /\ conns'[x].role = conns[x].role

\* C21: disconnect_student is idempotent.  A call for a student of the lobby
\* removes the student and its connection and broadcasts student_left to the
\* open connections left in the lobby, then lobby_update; student_left is
\* broadcast by no other step; a call for a user that is not in the lobby
\* (a second call, or a user never present) changes no lobby and sends
\* nothing.
C21_DisconnectIdempotent ==
    [][/\ \A L \in DOMAIN lobbies : \A u \in Users :
             Removed(L, u)
                => /\ u \notin DOMAIN lobbies'[L].student_connections
                   /\ DOMAIN lobbies'[L].students = DOMAIN lobbies[L].students \ {u}
                   /\ sent'.type = "student_left"
                   /\ sent'.to = {x \in Recipients(lobbies'[L], -1) : conns'[x].ws = "open"}
       /\ sent'.type = "student_left"
             => \E L \in DOMAIN lobbies : \E u \in Users : Removed(L, u)
       /\ \A c \in ConnIds :
             (conns[c].pc \in {"left2", "kick2"} /\ conns'[c].pc /= conns[c].pc)
                => sent'.type = "lobby_update" /\ lobbies' = lobbies
       /\ \A c \in ConnIds :
             LeavesAbsent(c)
                => /\ lobbies' = lobbies
                   /\ registry' = registry
                   /\ sent' = NoMsg
                   /\ \A x \in ConnIds \ {c} : conns'[x] = conns[x]
       /\ KicksAbsent
             => /\ lobbies' = lobbies
                /\ registry' = registry
                /\ sent' = NoMsg
                /\ conns' = conns]_vars

\* Every client action so far opened a connection or was the leave of a
\* student that has left; every teacher is in its loop, every student has
\* left, none was rejected or closed by the server, and the step before sent
\* nothing: it was a disconnect_student that found its user gone.  The user
\* was removed by an earlier disconnect_student, whose student_left reached
\* the teacher.
C21_Witness ==
    /\ registry /= 0
    /\ sent = NoMsg
    /\ lused = Cardinality({c \in ConnIds : conns[c].role /= "none"})
                 + Cardinality({c \in ConnIds : conns[c].role = "student"})
    /\ \A c \in ConnIds :
          /\ conns[c].role = "teacher" => conns[c].pc = "loop"
          /\ conns[c].role = "student"
                => /\ conns[c].pc = "done"
                   /\ conns[c].lobby = registry
                   /\ conns[c].got \cap {"error_not_found", "error_full", "error_closed",
                                          "lobby_closed"} = {}
    /\ lobbies[registry].teacher_connection /= 0
    /\ "student_left" \in conns[lobbies[registry].teacher_connection].got
    /\ \E c \in ConnIds : \E x \in ConnIds :
          /\ c /= x
          /\ conns[c].role = "student"
          /\ conns[x].role = "student"
          /\ conns[c].user = conns[x].user

\* C22: after any interleaving of submitAnswer calls there is at most one
\* answer row per attempt and question, and when a submitAnswer has returned
\* the row of its attempt and question holds the value it submitted.
C22_OneAnswerPerQuestion ==
    [][/\ \A i \in DOMAIN answers' : \A j \in DOMAIN answers' :
             (answers'[i].test = answers'[j].test
                 /\ answers'[i].question = answers'[j].question) => i = j
       /\ \A r \in Reqs :
             (req[r].op = "submit_answer" /\ req'[r].op = "idle")
                => \A i \in DOMAIN answers' :
                      (answers'[i].test = req[r].t /\ answers'[i].question = req[r].q)
                         => answers'[i].answer = req[r].val]_vars

\* C23: a submitAnswer on an attempt that is not in-progress answers
\* AttemptNotActive, and no submitAnswer creates or changes an answer row of
\* an attempt that is completed or graded, also when it races with finalize.
C23_LateAnswerRejected ==
    [][/\ (used' = used + 1 /\ last' /= last /\ last'.op = "submit_answer"
             /\ tests[last'.t].status /= "in-progress")
          => (last'.outcome = "not_active" /\ answers' = answers)
       /\ \A r \in Reqs :
             (req[r].op = "submit_answer" /\ req'[r].op = "idle"
                 /\ tests[req[r].t].status /= "in-progress")
                => answers' = answers]_vars

\* The jobs of kind kind that are pending or processing.
ActiveJobs(kind) ==
    {j \in DOMAIN tasks : tasks[j].kind = kind /\ tasks[j].state \in {"pending", "processing"}}

\* C24: for the project and every kind of job at most one job is pending or
\* processing at any time, and an enqueue made while one is active fails with
\* "already_running" and dispatches nothing.
C24_OneActiveJob ==
    [][/\ \A kind \in JobKinds : Cardinality(ActiveJobs(kind))' <= 1
       /\ \A kind \in JobKinds :
             ActiveJobs(kind) /= {}
                => /\ \A j \in DOMAIN tasks' : j \in DOMAIN tasks \/ tasks'[j].kind /= kind
                   /\ (last' /= last /\ kind = "vectorize" /\ last'.op = "start_vectorization")
                         => last'.outcome = "already_running"
                   /\ (last' /= last /\ kind = "generate" /\ last'.op = "generate_tests")
                         => last'.outcome = "already_running"]_vars

\* The step ends the run of the vectorization job j.
Finishes(j) ==
    /\ j \in DOMAIN tasks
    /\ tasks[j].kind = "vectorize"
    /\ tasks[j].state = "processing"
    /\ tasks'[j].state = "done"

\* C27: in the vectorization job a failure on one material marks only that
\* material failed and the job goes on with the next material; when the
\* batch has ended the status is partial, not failed, if at least one
\* material succeeded and at least one failed, and it is completed only if
\* no material of the job failed.
C27_BatchStatus ==
    [][\A j \in DOMAIN tasks :
          /\ (tasks[j].kind = "vectorize" /\ tasks'[j].failed /= tasks[j].failed)
                => /\ \E m \in Materials :
                         /\ tasks'[j].failed = tasks[j].failed \cup {m}
                         /\ materials' = [materials EXCEPT ![m] = -1]
                         /\ tasks'[j].idx = m + 1
                   /\ tasks'[j].state = "processing"
                   /\ project' = project
          /\ (Finishes(j) /\ tasks[j].failed /= {} /\ tasks[j].succeeded /= {})
                => /\ tasks'[j].result = "partial"
                   /\ project'.vectorization_status = "partial"
          /\ (Finishes(j) /\ tasks[j].idx = MaxMaterials + 1)
                => tasks[j].failed \cup tasks[j].succeeded = Materials
          /\ (Finishes(j) /\ tasks'[j].result = "success")
                => /\ tasks[j].failed = {}
                   /\ project'.vectorization_status = "completed"
          /\ (Finishes(j) /\ project'.vectorization_status = "completed")
                => tasks[j].failed = {}]_vars

\* The step is the failure of the grading of answer i in the job.
OracleFailed(i) ==
    /\ job.pc = "grade"
    /\ i \in job.todo
    /\ i \notin job'.todo
    /\ job'.snapA[i].grading_status = "failed"

\* C25: a failure of the oracle on one answer does not fail the grading job:
\* the answer's row ends with grading_status failed, graded_by
\* pending_manual_review, score 0 and a feedback, the job goes on with the
\* remaining answers, and when it completes every answer was handled and the
\* attempt's score is the sum of the scores of its answers.
C25_OracleFailure ==
    [][/\ \A i \in DOMAIN answers :
             OracleFailed(i)
                => /\ answers'[i].grading_status = "failed"
                   /\ answers'[i].graded_by = "pending_manual_review"
                   /\ answers'[i].score = 0
                   /\ answers'[i].feedback /= "null"
                   /\ job'.pc = "grade"
                   /\ job'.todo = job.todo \ {i}
       /\ (job.pc = "grade" /\ job'.pc = "idle")
             => /\ job.todo = {}
                /\ last'.outcome = "done"
                /\ tests'[job.t].score = AnswerSum(answers', job.t)]_vars

\* The attempts a run creates.
AttemptIds == 1..MaxCalls

\* Every answer of attempt t to an open-ended question is graded or failed.
Settled(t) ==
    /\ t \in DOMAIN tests
    /\ \A i \in WrittenRows(t) : answers[i].grading_status \in {"completed", "failed"}

\* C26: once the grading job has started on an attempt, every answer of the
\* attempt to an open-ended question eventually has grading_status completed
\* or failed.
C26_GradingSettles ==
    \A t \in AttemptIds : (job.pc = "grade" /\ job.t = t) ~> Settled(t)

\* The variant of question q has an attempt.
Attempted(q) == \E t \in DOMAIN tests : tests[t].variant_number = qs[q].variant_number

\* C28: a question of a variant that has an attempt is immutable: no step
\* (question update, question deletion, regeneration) changes or removes the
\* question, and no step removes an answer that refers to it.
C28_QuestionsImmutable ==
    [][\A q \in DOMAIN qs :
          Attempted(q)
             => /\ q \in DOMAIN qs'
                /\ qs'[q] = qs[q]
                /\ \A i \in DOMAIN answers :
                      answers[i].question = q => answers'[i].question = q]_vars

\* The access window as the specification states it: the project is
\* teacher-activated and its end time is not passed, or it is scheduled, its
\* start time is set and elapsed and its end time is not passed.
WindowOpen(p, now) ==
    \/ /\ p.status = "active"
       /\ (p.end_time = None \/ now <= p.end_time)
    \/ /\ p.status = "ready"
       /\ p.start_time /= None
       /\ p.start_time <= now
       /\ (p.end_time = None \/ now <= p.end_time)

\* C29: begin returns an attempt only at an instant at which the project's
\* access window is open (active with the end time not reached, or ready with
\* the start time elapsed and the end time not reached), and an attempt is
\* created only for a project whose window was open at some instant up to the
\* creation; in every other project state begin creates no attempt.
C29_BeginOnlyInWindow ==
    [][/\ (last' /= last /\ last'.op = "begin" /\ last'.outcome = "existing")
             => WindowOpen(project, clock)
       /\ Len(tests') > Len(tests)
             => \E now \in 1..clock : WindowOpen(project, now)]_vars

\* The variants of the project that hold at least one question.
VariantsWithQuestions == {v \in {1, 2} : \E q \in DOMAIN qs : qs[q].variant_number = v}

\* The sum of the points of the questions of variant v.
PointsOfVariant(v) ==
    SumOver({q \in DOMAIN qs : qs[q].variant_number = v},
            [q \in DOMAIN qs |-> qs[q].points])

\* C30: every attempt that begin creates has status in-progress, a variant
\* number that is one of the project's variants holding at least one
\* question, and a maximum score equal to the sum of the points of that
\* variant's questions; when the project has no questions no begin call
\* creates or returns an attempt, and the call that reaches the creation
\* fails with "This test has no questions yet".
C30_CreatedAttempt ==
    [][/\ tests' /= tests
             => /\ Len(tests') = Len(tests) + 1
                /\ SubSeq(tests', 1, Len(tests)) = tests
                /\ LET n == tests'[Len(tests')] IN
                      /\ n.status = "in-progress"
                      /\ n.variant_number \in VariantsWithQuestions
                      /\ n.max_score = PointsOfVariant(n.variant_number)
                      /\ last'.op = "begin"
                      /\ last'.outcome = "created"
                      /\ last'.ret = n
       /\ DOMAIN qs = {}
             => /\ tests' = tests
                /\ last'.outcome \notin {"created", "existing"}
                /\ \A r \in Reqs :
                      (req[r].op = "begin" /\ req'[r].op = "idle")
                         => last'.outcome = "no_questions"]_vars

\* begin created an attempt of variant 1 of the full set of questions, and
\* an attempt of variant 2 exists as well.
C30_Witness ==
    /\ DOMAIN qs = Questions
    /\ last.op = "begin"
    /\ last.outcome = "created"
    /\ last.ret.variant_number = 1
    /\ last.ret.max_score = 12
    /\ \E t \in DOMAIN tests : tests[t].variant_number = 2 /\ tests[t].max_score = 1

\* C38: in every lobby the user ids of the students map are the user ids of
\* the student_connections map: a Presence exists iff a student connection is
\* registered for the same user.
C38_MapsAgree ==
    \A L \in DOMAIN lobbies :
        DOMAIN lobbies[L].students = DOMAIN lobbies[L].student_connections

\* A student who was in the lobby when another one joined has left it, and
\* the lobby of the project still holds a student.
C38_Witness ==
    /\ registry /= 0
    /\ DOMAIN lobbies[registry].students /= {}
    /\ \E c \in ConnIds :
          /\ conns[c].role = "student"
          /\ conns[c].pc = "done"
          /\ "student_joined" \in conns[c].got
          /\ conns[c].user \notin DOMAIN lobbies[registry].students
          /\ conns[c].user \notin DOMAIN lobbies[registry].student_connections

\* C34: a connectTeacher on a lobby that exists replaces the registered
\* teacher connection and changes nothing else of the lobby (students,
\* readiness flags, status, capacity); its lobby_update reaches no other
\* teacher connection, and a teacher connection that receives any broadcast
\* is the one some lobby has registered.
C34_TeacherReplaced ==
    [][/\ \A c \in ConnIds :
            (/\ conns[c].pc = "ct_lock"
             /\ conns'[c].pc = "loop"
             /\ registry /= 0)
            => /\ registry' = registry
               /\ lobbies' = [lobbies EXCEPT ![registry].teacher_connection = c]
               /\ sent'.type = "lobby_update"
               /\ c \in sent'.to
               /\ \A d \in sent'.to \ {c} : conns[d].role /= "teacher"
       /\ \A d \in ConnIds :
            (/\ sent' /= sent
             /\ sent'.type /= "error"
             /\ d \in sent'.to
             /\ conns'[d].role = "teacher")
            => \E L \in DOMAIN lobbies' : lobbies'[L].teacher_connection = d
      ]_vars

\* Two teacher connections are open; the second one connected after a
\* student had joined and is the registered one, and the student is still in
\* the lobby.
C34_Witness ==
    /\ registry /= 0
    /\ DOMAIN lobbies[registry].students /= {}
    /\ \E c, d \in ConnIds :
          /\ c /= d
          /\ conns[c].role = "teacher" /\ conns[d].role = "teacher"
          /\ conns[c].pc = "loop" /\ conns[d].pc = "loop"
          /\ conns[c].ws = "open" /\ conns[d].ws = "open"
          /\ lobbies[registry].teacher_connection = d
          /\ "student_joined" \in conns[c].got
          /\ "student_joined" \notin conns[d].got
          /\ "lobby_update" \in conns[d].got

\* The open connections a lobby has registered, without those of user u.
C31_Registered(lobby, u) ==
    {d \in ConnIds :
        /\ conns[d].ws = "open"
        /\ \/ d = lobby.teacher_connection
           \/ \E x \in DOMAIN lobby.student_connections :
                 x /= u /\ lobby.student_connections[x] = d}

C33_ErrorIsLocal ==
    [][\A c \in ConnIds :
          (/\ conns[c].pc = "loop"
           /\ conns'[c].pc = "done"
           /\ "error" \in conns'[c].got
           /\ "error" \notin conns[c].got)
          => /\ sent' = [type |-> "error", to |-> {c}]
             /\ \A d \in ConnIds \ {c} : conns'[d] = conns[d]
             /\ registry' = registry
             /\ lock' = lock
             /\ DOMAIN lobbies' = DOMAIN lobbies
             /\ \A L \in DOMAIN lobbies :
                   /\ lobbies'[L].status = lobbies[L].status
                   /\ lobbies'[L].max_students = lobbies[L].max_students
                   /\ lobbies[L].teacher_connection /= c
                      => lobbies'[L].teacher_connection = lobbies[L].teacher_connection
                   /\ \A u \in DOMAIN lobbies[L].students :
                         u /= conns[c].user
                         => /\ u \in DOMAIN lobbies'[L].students
                            /\ lobbies'[L].students[u] = lobbies[L].students[u]
                            /\ lobbies'[L].student_connections[u]
                                  = lobbies[L].student_connections[u]
      ]_vars

\* A student's handler ended on a malformed message; after that a student of
\* another user joined the lobby and is served: neither saw the other join.
C33_Witness ==
    /\ registry /= 0
    /\ \E c, d \in ConnIds :
          /\ conns[c].role = "student" /\ conns[d].role = "student"
          /\ conns[c].user /= conns[d].user
          /\ conns[c].pc = "done"
          /\ "error" \in conns[c].got
          /\ "lobby_update" \in conns[c].got
          /\ "student_joined" \notin conns[c].got
          /\ conns[d].pc = "loop" /\ conns[d].ws = "open"
          /\ "student_joined" \notin conns[d].got
          /\ "lobby_update" \in conns[d].got
          /\ conns[d].user \in DOMAIN lobbies[registry].students
          /\ lobbies[registry].student_connections[conns[d].user] = d

\* C36: when a student's connection handler ends, whatever ended it, the
\* lobby of the project no longer has that connection registered, so the
\* student's Presence no longer counts toward capacity.
C36_EndedIsRemoved ==
    [][\A c \in ConnIds :
          (/\ conns[c].role = "student"
           /\ conns[c].pc /= "done"
           /\ conns'[c].pc = "done"
           /\ registry' /= 0)
          => LET lobby == lobbies'[registry']
                 u == conns[c].user
             IN ~ (/\ u \in DOMAIN lobby.student_connections
                   /\ lobby.student_connections[u] = c
                   /\ u \in DOMAIN lobby.students)
      ]_vars

\* C37: when a user has two student connections and the lobby has the newer
\* one (d) registered, the end of the older one (c) leaves the user's
\* Presence and the registration of d in the lobby.
C37_OlderDropKeepsNewer ==
    [][\A c, d \in ConnIds :
          (/\ c /= d
           /\ conns[c].role = "student" /\ conns[d].role = "student"
           /\ conns[c].user = conns[d].user
           /\ conns[c].pc = "loop"
           /\ conns'[c].pc \in {"left2", "done"}
           /\ conns[d].pc = "loop"
           /\ conns[d].ws = "open"
           /\ registry /= 0
           /\ conns[d].user \in DOMAIN lobbies[registry].student_connections
           /\ lobbies[registry].student_connections[conns[d].user] = d)
          => /\ conns[d].user \in DOMAIN lobbies'[registry].students
             /\ conns[d].user \in DOMAIN lobbies'[registry].student_connections
             /\ lobbies'[registry].student_connections[conns[d].user] = d
      ]_vars

\* C35: an attempt gets the status graded only when it has an answer to an
\* essay, short-answer or matching question, and a grading job that is taken
\* for an attempt without such an answer returns at once: no attempt, no
\* answer changes and the worker is idle again.
C35_GradedNeedsWritten ==
    [][/\ \A t \in TestIds :
            (tests'[t].status = "graded" /\ tests[t].status /= "graded")
            => WrittenRows(t) /= {}
       /\ \A t \in queue \ queue' :
            WrittenRows(t) = {}
            => /\ tests' = tests
               /\ answers' = answers
               /\ job' = job
               /\ job.pc = "idle"
               /\ last'.op = "job"
      ]_vars

\* The job has just returned for a finalized attempt that holds an answer,
\* none to a written question; the attempt is completed with its score.
C35_Witness ==
    /\ last.op = "job"
    /\ last.outcome = "no_written"
    /\ AnswersOf(last.t) /= {}
    /\ WrittenRows(last.t) = {}
    /\ tests[last.t].status = "completed"
    /\ tests[last.t].score > 0
    /\ job.pc = "idle"

\* C39: every attempt whose status is completed or graded has a score from
\* 0 to its max_score.
C39_ScoreWithinMax ==
    \A t \in TestIds :
        tests[t].status \in Finalized
        => /\ tests[t].score >= 0
           /\ tests[t].score <= tests[t].max_score

\* No operation of the manager is under way: every handler is in its read
\* loop or has returned, and the lock is free.
C32_AtRest ==
    /\ lock = 0
    /\ \A c \in ConnIds : conns[c].pc \in {"none", "loop", "done"}

\* C32: under concurrent join, leave and ready messages every lobby_update a
\* connection receives carries the status, the students and their readiness
\* that the broadcasting lobby has at that instant, and once all operations
\* have finished, the last lobby_update received by every open connection
\* the project's lobby has registered equals the lobby's state.
C32_UpdatesConsistent ==
    /\ \A c \in ConnIds :
          (sent.type = "lobby_update" /\ c \in sent.to)
          => \E L \in DOMAIN lobbies :
                /\ c \in Recipients(lobbies[L], -1)
                /\ view.of[c] = [status |-> lobbies[L].status,
                                 students |-> lobbies[L].students,
                                 max_students |-> lobbies[L].max_students]
    /\ (C32_AtRest /\ registry /= 0)
       => \A c \in Recipients(lobbies[registry], -1) :
             conns[c].ws = "open"
             => view.of[c] = [status |-> lobbies[registry].status,
                              students |-> lobbies[registry].students,
                              max_students |-> lobbies[registry].max_students]

\* All operations have finished after a join, a ready message and a leave
\* that overlapped: the teacher and a ready student are connected, a student
\* has left, and both hold the lobby's state.
C32_Witness ==
    /\ C32_AtRest
    /\ registry /= 0
    /\ \E t, c, d \in ConnIds :
          /\ conns[t].role = "teacher" /\ conns[t].ws = "open"
          /\ lobbies[registry].teacher_connection = t
          /\ conns[c].role = "student" /\ conns[c].ws = "open"
          /\ conns[c].user \in DOMAIN lobbies[registry].students
          /\ lobbies[registry].students[conns[c].user] = "ready"
          /\ lobbies[registry].student_connections[conns[c].user] = c
          /\ conns[d].role = "student" /\ conns[d].pc = "done"
          /\ conns[d].user \notin DOMAIN lobbies[registry].students
          /\ "student_left" \in conns[t].got
          /\ {"student_joined", "student_left", "student_ready"} \subseteq conns[c].got
          /\ view.of[t] = view.of[c]
          /\ view.of[t].students = lobbies[registry].students

\* The positions of a handler inside an operation of the manager.
C40_Pending ==
    {"ct_lock", "accepted", "joined", "ready2", "left2", "cl_lock", "closing", "sleep"}

====
